---- MODULE Spec2Model ----
(***************************************************************************)
(* Wall graph of core/dwg_parser/wall_graph.py: construction of the planar *)
(* graph from wall segments (add_wall) and extraction of the enclosed room *)
(* polygons (find_cycles).                                                 *)
(*                                                                         *)
(* Lengths are integers in units of the default snap tolerance (0.05 m),   *)
(* so 1 m = 20 units; areas are kept doubled (2 * area, in unit^2), which  *)
(* makes the shoelace sum and every comparison exact: 0.5 m^2 = 400.       *)
(* Node and edge ids (uuid strings in the source) are the creation         *)
(* indices 1, 2, ...; the dicts nodes / edges keep insertion order, which  *)
(* is the iteration order find_cycles uses.                                *)
(***************************************************************************)
EXTENDS Integers, Sequences, FiniteSets, TLC

VARIABLES
    plan,       \* the drawing the caller feeds to add_wall (fixed per run)
    nodes,      \* WallGraph.nodes: id -> [position, edge_ids]
    edges,      \* WallGraph.edges: id -> [node_ids, wall_id]
    edge_set,   \* WallGraph._edge_set: sorted node-id pairs
    op,         \* the last operation called: "init", "add_wall", "find_cycles"
    resolved,   \* add_wall: the endpoint resolutions it made, in order
    segments,   \* add_wall: the outcome of each of its segments, in order
    min_area,   \* find_cycles: its argument (doubled area)
    traces,     \* find_cycles: every _trace_cycle call it made, in order
    filtered,   \* find_cycles: the cycles left by the min_area filter
    result,     \* find_cycles: the list it returned
    calls,      \* find_cycles calls since the last add_wall (counted to 2)
    openai_service, \* RoomClassifier.openai_service: None or a service
    cop,        \* the last classifier / parser operation called
    room_polygons, \* _detect_rooms_from_walls: the polygons find_cycles gave
    doors,      \* FloorPlan.doors: their positions, in order
    windows,    \* FloorPlan.windows: their positions, in order
    contexts,   \* the RoomContexts classified or built, in order
    responses,  \* per context: what chat_completion does if it is called
    results,    \* the RoomClassifications returned, in order
    chat_calls, \* per context: the chat_completion calls made for it
    floor_rooms, \* FloorPlan.rooms
    modelspace, \* the INSERT entities of the DXF modelspace, in order
    raised      \* the exception the last operation let escape, or None

\* the wall graph and the record of its last operation
gvars == <<plan, nodes, edges, edge_set, op, resolved, segments,
           min_area, traces, filtered, result, calls>>

\* the classifier, the floor plan and the record of their last operation
cvars == <<openai_service, cop, room_polygons, doors, windows, contexts,
           responses, results, chat_calls, floor_rooms, modelspace, raised>>

vars == <<gvars, cvars>>

-----------------------------------------------------------------------------
(* Bounds and program constants *)

\* cap on the number of edges of a free-hand drawing (Sketch, Snap)
MaxEdges == 4

\* WallGraph.__init__(snap_tolerance=0.05): one length unit
SnapTolerance == 1

\* find_cycles(min_area=0.5), doubled, in unit^2 (0.5 * 400 * 2)
DefaultMinArea == 400

\* "no node" / "no edge" / "no cycle" (Python None)
None == 0

\* no exception escaped
NoException == "none"

\* the values of min_area the callers pass: none, the default, 25 m^2
MinAreas == {0, DefaultMinArea, 50 * DefaultMinArea}

\* the order in which the spatial index hands back its candidates
ScanOrders == {"asc", "desc"}

-----------------------------------------------------------------------------
(* Geometry: spatial_utils.py *)

Abs(x) == IF x < 0 THEN -x ELSE x

\* squared Euclidean distance; distance() is its square root
Dist2(p, q) == (q[1] - p[1]) * (q[1] - p[1]) + (q[2] - p[2]) * (q[2] - p[2])

Cross(u, v) == u[1] * v[2] - u[2] * v[1]

Dot(u, v) == u[1] * v[1] + u[2] * v[2]

RECURSIVE ShoelaceSum(_, _)
ShoelaceSum(poly, i) ==
    IF i > Len(poly) THEN 0
    ELSE LET j == IF i = Len(poly) THEN 1 ELSE i + 1
         IN Cross(poly[i], poly[j]) + ShoelaceSum(poly, i + 1)

\* polygon_area, doubled: |shoelace sum| of the ring, 0 under 3 vertices
polygon_area(poly) ==
    IF Len(poly) < 3 THEN 0 ELSE Abs(ShoelaceSum(poly, 1))

-----------------------------------------------------------------------------
(* Graph construction *)

Graph == [nodes |-> nodes, edges |-> edges, edge_set |-> edge_set]

EmptyGraph == [nodes |-> <<>>, edges |-> <<>>, edge_set |-> {}]

\* slip: dist < tolerance instead of dist <= tolerance
NearNodes_strict(g, position, tolerance) ==
    {i \in 1..Len(g.nodes) :
        Dist2(position, g.nodes[i].position) < tolerance * tolerance}

\* the nodes the spatial index returns for the query square, then the
\* distance test of find_node_near
NearNodes(g, position, tolerance) ==
    {i \in 1..Len(g.nodes) :
        /\ Abs(g.nodes[i].position[1] - position[1]) <= tolerance
        /\ Abs(g.nodes[i].position[2] - position[2]) <= tolerance
        /\ Dist2(position, g.nodes[i].position) <= tolerance * tolerance}

\* the candidates at the least distance (best_dist)
Nearest(g, position, near) ==
    {i \in near : \A j \in near :
        Dist2(position, g.nodes[i].position)
            <= Dist2(position, g.nodes[j].position)}

\* among equally close candidates the first one scanned is kept
FirstScanned(best, scan) ==
    IF best = {} THEN None
    ELSE IF scan = "asc" THEN CHOOSE i \in best : \A j \in best : i <= j
    ELSE CHOOSE i \in best : \A j \in best : i >= j

\* find_node_near: the closest node within tolerance, None when there is none
find_node_near(g, position, tolerance, scan) ==
    FirstScanned(Nearest(g, position, NearNodes(g, position, tolerance)), scan)

\* slip: a node that an endpoint snaps to moves to that endpoint
node_or_new_moved(g, position, existing) ==
    IF existing # None
    THEN [g |-> [g EXCEPT !.nodes[existing].position = position],
          id |-> existing, created |-> FALSE]
    ELSE [g |-> [g EXCEPT !.nodes =
                    Append(@, [position |-> position, edge_ids |-> <<>>])],
          id |-> Len(g.nodes) + 1,
          created |-> TRUE]

\* the two exits of _get_or_create_node: [g, id, created]
node_or_new(g, position, existing) ==
    IF existing # None
    THEN [g |-> g, id |-> existing, created |-> FALSE]
    ELSE [g |-> [g EXCEPT !.nodes =
                    Append(@, [position |-> position, edge_ids |-> <<>>])],
          id |-> Len(g.nodes) + 1,
          created |-> TRUE]

\* _get_or_create_node
get_or_create_node(g, position, scan) ==
    node_or_new(g, position, find_node_near(g, position, SnapTolerance, scan))

\* slip: the edge key is not sorted
EdgeKey_unsorted(a, b) == <<a, b>>

\* edge_key: the sorted pair of node ids
EdgeKey(a, b) == IF a <= b THEN <<a, b>> ELSE <<b, a>>

\* slip: no test of the edge key
segment_outcome_no_duplicate_check(a, b, keys) ==
    IF a = b THEN "degenerate" ELSE "added"

\* the two early returns of _add_segment
segment_outcome(a, b, keys) ==
    IF a = b THEN "degenerate"
    ELSE IF EdgeKey(a, b) \in keys THEN "duplicate"
    ELSE "added"

\* slip: the new edge is appended to node_a's list only
with_edge_one_end(g, a, b, wall_id, edge_id) ==
    [nodes |-> [i \in 1..Len(g.nodes) |->
                  IF i = a
                  THEN [g.nodes[i] EXCEPT !.edge_ids = Append(@, edge_id)]
                  ELSE g.nodes[i]],
     edges |-> Append(g.edges, [node_ids |-> <<a, b>>, wall_id |-> wall_id]),
     edge_set |-> g.edge_set \cup {EdgeKey(a, b)}]

\* the end of _add_segment: the new edge, its key, the two edge_ids lists
with_edge(g, a, b, wall_id, edge_id) ==
    [nodes |-> [i \in 1..Len(g.nodes) |->
                  IF i = a \/ i = b
                  THEN [g.nodes[i] EXCEPT !.edge_ids = Append(@, edge_id)]
                  ELSE g.nodes[i]],
     edges |-> Append(g.edges, [node_ids |-> <<a, b>>, wall_id |-> wall_id]),
     edge_set |-> g.edge_set \cup {EdgeKey(a, b)}]

\* _add_segment once node_a (ra) and node_b (rb) are resolved: the graph
\* after it, and what it did
segment_result(g, ra, rb, start, end, wall_id, outcome) ==
    [g |-> IF outcome = "added"
           THEN with_edge(rb.g, ra.id, rb.id, wall_id, Len(rb.g.edges) + 1)
           ELSE rb.g,
     resolved |-> <<[position |-> start, known |-> Len(g.nodes),
                     id |-> ra.id, created |-> ra.created],
                    [position |-> end, known |-> Len(ra.g.nodes),
                     id |-> rb.id, created |-> rb.created]>>,
     segment |-> [a |-> ra.id, b |-> rb.id, outcome |-> outcome]]

segment_resolved(g, ra, rb, start, end, wall_id) ==
    segment_result(g, ra, rb, start, end, wall_id,
                   segment_outcome(ra.id, rb.id, rb.g.edge_set))

\* _add_segment from its second line on
add_segment_end(g, ra, start, end, wall_id, scan) ==
    segment_resolved(g, ra, get_or_create_node(ra.g, end, scan),
                     start, end, wall_id)

\* _add_segment
add_segment(g, start, end, wall_id, scan) ==
    add_segment_end(g, get_or_create_node(g, start, scan),
                    start, end, wall_id, scan)

\* the loop of add_wall over the segments i, i+1 of the wall's points
RECURSIVE add_wall_loop(_, _, _, _, _, _)
RECURSIVE add_wall_next(_, _, _, _, _, _)
add_wall_loop(g, wall, i, scan, res, segs) ==
    IF i > Len(wall.points) - 1
    THEN [g |-> g, resolved |-> res, segments |-> segs]
    ELSE add_wall_next(add_segment(g, wall.points[i], wall.points[i + 1],
                                   wall.id, scan),
                       wall, i, scan, res, segs)

add_wall_next(r, wall, i, scan, res, segs) ==
    add_wall_loop(r.g, wall, i + 1, scan,
                  res \o r.resolved, Append(segs, r.segment))

\* add_wall: a wall of fewer than 2 points is ignored
add_wall(g, wall, scan) ==
    IF Len(wall.points) < 2
    THEN [g |-> g, resolved |-> <<>>, segments |-> <<>>]
    ELSE add_wall_loop(g, wall, 1, scan, <<>>, <<>>)

-----------------------------------------------------------------------------
(* Cycle extraction *)

\* get_edges_from_node: the ids of the node's edges, in edge_ids order
get_edges_from_node(g, node_id) ==
    IF node_id \notin 1..Len(g.nodes) THEN <<>>
    ELSE SelectSeq(g.nodes[node_id].edge_ids,
                   LAMBDA eid : eid \in 1..Len(g.edges))

\* get_other_node: the node at the other end of the edge
get_other_node(g, edge, node_id) ==
    IF g.edges[edge].node_ids[1] = node_id THEN g.edges[edge].node_ids[2]
    ELSE IF g.edges[edge].node_ids[2] = node_id THEN g.edges[edge].node_ids[1]
    ELSE None

Direction(g, from, to) ==
    <<g.nodes[to].position[1] - g.nodes[from].position[1],
      g.nodes[to].position[2] - g.nodes[from].position[2]>>

\* atan2(dy, dx) > 0, for a direction d = (dx, dy)
AnglePositive(d) == d[2] > 0 \/ (d[2] = 0 /\ d[1] < 0)

\* Where turn_angle = outgoing_angle - incoming_angle lies once normalised
\* to [-pi, pi]: 0 for -pi, 1 inside (-pi, 0), 2 for 0, 3 inside (0, pi),
\* 4 for pi.  An exact reversal is outgoing = incoming - pi (turn -pi) when
\* the incoming angle is positive and incoming + pi (turn pi) otherwise.
TurnSector(in, out) ==
    IF Cross(in, out) < 0 THEN 1
    ELSE IF Cross(in, out) > 0 THEN 3
    ELSE IF Dot(in, out) > 0 THEN 2
    ELSE IF AnglePositive(in) THEN 0
    ELSE 4

\* turn angles compared by sector, and inside an open half turn by the
\* cross product of the two directions
SectorLess(sector1, sector2, cross12) ==
    \/ sector1 < sector2
    \/ sector1 = sector2 /\ sector1 \in {1, 3} /\ cross12 > 0

\* turn_angle(out1) < turn_angle(out2), i.e. out1 has the greater
\* right_turn_score
TurnsRightOf(in, out1, out2) ==
    SectorLess(TurnSector(in, out1), TurnSector(in, out2), Cross(out1, out2))

\* slip: the comparison is reversed, the leftmost turn wins
better_turn_leftmost(g, current_node, in, other, best_edge) ==
    \/ best_edge = None
    \/ TurnsRightOf(in, Direction(g, current_node,
                                  get_other_node(g, best_edge, current_node)),
                    Direction(g, current_node, other))

\* right_turn_score > best_turn_angle: the first candidate beats -inf, a
\* later one replaces the best only with a strictly greater score
better_turn(g, current_node, in, other, best_edge) ==
    \/ best_edge = None
    \/ TurnsRightOf(in, Direction(g, current_node, other),
                    Direction(g, current_node,
                              get_other_node(g, best_edge, current_node)))

\* the for loop of _find_rightmost_edge
RECURSIVE rightmost_loop(_, _, _, _, _, _, _)
RECURSIVE rightmost_body(_, _, _, _, _, _, _, _)
rightmost_loop(g, current_node, in, current_edge, ids, i, best_edge) ==
    IF i > Len(ids) THEN best_edge
    ELSE rightmost_body(g, current_node, in, current_edge, ids, i, best_edge,
                        get_other_node(g, ids[i], current_node))

rightmost_body(g, current_node, in, current_edge, ids, i, best_edge, other) ==
    rightmost_loop(g, current_node, in, current_edge, ids, i + 1,
        IF ids[i] = current_edge \/ other = None THEN best_edge
        ELSE IF better_turn(g, current_node, in, other, best_edge) THEN ids[i]
        ELSE best_edge)

\* slip: a dead end turns back along the edge it came by
rightmost_among_u_turn(g, current_node, prev_node, current_edge, ids) ==
    IF Len(ids) = 0 THEN None
    ELSE IF Len(ids) = 1 THEN ids[1]
    ELSE rightmost_loop(g, current_node,
                        Direction(g, prev_node, current_node),
                        current_edge, ids, 1, None)

\* _find_rightmost_edge among the node's edges ids: None at a node with no
\* other edge than the one arrived by (dead end)
rightmost_among(g, current_node, prev_node, current_edge, ids) ==
    IF Len(ids) = 0 THEN None
    ELSE IF Len(ids) = 1 THEN None
    ELSE rightmost_loop(g, current_node,
                        Direction(g, prev_node, current_node),
                        current_edge, ids, 1, None)

\* _find_rightmost_edge
find_rightmost_edge(g, current_node, prev_node, current_edge) ==
    rightmost_among(g, current_node, prev_node, current_edge,
                    get_edges_from_node(g, current_node))

\* slip: a step bound twice as large
max_iterations_doubled(g) == Len(g.edges) * 4 + 20

\* max_iterations of _trace_cycle
max_iterations(g) == Len(g.edges) * 2 + 10

SeqToSet(s) == {s[i] : i \in 1..Len(s)}

\* slip: the used directed edges are never consulted
never_used(directed_key, used) == FALSE

\* "directed_key in used_directed_edges"
already_used(directed_key, used) == directed_key \in used

\* _trace_cycle returning None
Aborted(used, steps, why) ==
    [cycle |-> <<>>, ok |-> FALSE, cycle_edges |-> <<>>,
     used |-> used, steps |-> steps, why |-> why]

\* slip: a cycle is returned but its directed edges are not marked
Closed_unmarked(used, cycle_nodes, cycle_edges, steps) ==
    [cycle |-> cycle_nodes, ok |-> TRUE, cycle_edges |-> cycle_edges,
     used |-> used, steps |-> steps, why |-> "closed"]

\* _trace_cycle returning a cycle: its directed edges are marked used
Closed(used, cycle_nodes, cycle_edges, steps) ==
    [cycle |-> cycle_nodes, ok |-> TRUE, cycle_edges |-> cycle_edges,
     used |-> used \cup SeqToSet(cycle_edges), steps |-> steps,
     why |-> "closed"]

\* the for loop of _trace_cycle, one operator per stage of its body;
\* steps counts the iterations begun
RECURSIVE trace_loop(_, _, _, _, _, _, _, _, _)
RECURSIVE trace_record(_, _, _, _, _, _, _, _, _)
RECURSIVE trace_turn(_, _, _, _, _, _, _, _)
RECURSIVE trace_move(_, _, _, _, _, _, _, _, _)
trace_loop(g, used, target, current_edge, current_from, current_node, cycle_nodes, cycle_edges, steps) ==
    IF steps >= max_iterations(g) THEN Aborted(used, steps, "max_iterations")
    ELSE IF already_used(<<current_edge, current_from>>, used)
    THEN Aborted(used, steps + 1, "used")
    ELSE trace_record(g, used, target, current_edge, current_from,
                      current_node, Append(cycle_nodes, current_node),
                      Append(cycle_edges, <<current_edge, current_from>>),
                      steps + 1)

\* slip: the trace stops after three nodes wherever it is
trace_record_unclosed(g, used, target, current_edge, current_from, current_node, cycle_nodes, cycle_edges, steps) ==
    IF Len(cycle_nodes) >= 3
    THEN Closed(used, cycle_nodes, cycle_edges, steps)
    ELSE trace_turn(g, used, target, current_node, cycle_nodes, cycle_edges,
                    steps,
                    find_rightmost_edge(g, current_node, current_from,
                                        current_edge))

trace_record(g, used, target, current_edge, current_from, current_node, cycle_nodes, cycle_edges, steps) ==
    IF current_node = target /\ Len(cycle_nodes) >= 3
    THEN Closed(used, cycle_nodes, cycle_edges, steps)
    ELSE trace_turn(g, used, target, current_node, cycle_nodes, cycle_edges,
                    steps,
                    find_rightmost_edge(g, current_node, current_from,
                                        current_edge))

trace_turn(g, used, target, current_node, cycle_nodes, cycle_edges, steps, next_edge) ==
    IF next_edge = None THEN Aborted(used, steps, "dead_end")
    ELSE trace_move(g, used, target, current_node, cycle_nodes, cycle_edges,
                    steps, next_edge,
                    get_other_node(g, next_edge, current_node))

trace_move(g, used, target, current_node, cycle_nodes, cycle_edges, steps, next_edge, next_node) ==
    IF next_node = None THEN Aborted(used, steps, "dead_end")
    ELSE trace_loop(g, used, target, next_edge, current_node, next_node,
                    cycle_nodes, cycle_edges, steps)

\* _trace_cycle from current_node, the far end of the start edge
trace_from(g, start_edge, start_from_node_id, used, current_node) ==
    IF current_node = None THEN Aborted(used, 0, "dead_end")
    ELSE trace_loop(g, used, start_from_node_id, start_edge,
                    start_from_node_id, current_node, <<>>, <<>>, 0)

\* _trace_cycle from the directed edge (start_edge, start_from_node_id)
trace_cycle(g, start_edge, start_from_node_id, used) ==
    trace_from(g, start_edge, start_from_node_id, used,
               get_other_node(g, start_edge, start_from_node_id))

Positions(g, cycle) == [i \in 1..Len(cycle) |-> g.nodes[cycle[i]].position]

\* slip: the first cycle is taken for the outer boundary
max_area_index_first(cycles, i, max_area, max_index) == 1

\* the search for the largest area in _remove_outer_boundary: max_index
\* (0-based in the source, 1-based here, None for -1)
RECURSIVE max_area_index(_, _, _, _)
max_area_index(cycles, i, max_area, max_index) ==
    IF i > Len(cycles) THEN max_index
    ELSE IF polygon_area(cycles[i]) > max_area
         THEN max_area_index(cycles, i + 1, polygon_area(cycles[i]), i)
         ELSE max_area_index(cycles, i + 1, max_area, max_index)

\* cycles[:max_index] + cycles[max_index + 1:], or cycles when no index
\* was found
remove_index(cycles, max_index) ==
    IF max_index # None
    THEN [i \in 1..(Len(cycles) - 1) |->
            IF i < max_index THEN cycles[i] ELSE cycles[i + 1]]
    ELSE cycles

\* slip: the outer boundary is never removed
keep_outer_boundary(cycles) == cycles

\* _remove_outer_boundary
remove_outer_boundary(cycles) ==
    IF Len(cycles) <= 1 THEN cycles
    ELSE remove_index(cycles, max_area_index(cycles, 1, 0, None))

\* the record kept of one _trace_cycle call t from (edge, start_node_id)
TraceRecord(edge, start_node_id, used, t) ==
    [edge |-> edge, from |-> start_node_id, ok |-> t.ok, cycle |-> t.cycle,
     cycle_edges |-> t.cycle_edges, marked |-> t.used \ used,
     steps |-> t.steps, why |-> t.why]

\* the double loop of find_cycles over the edges and their two start
\* nodes; k counts the directed edges tried: 2(e-1)+1 and 2(e-1)+2 for edge e
RECURSIVE find_cycles_loop(_, _, _, _)
RECURSIVE find_cycles_try(_, _, _, _, _, _)
RECURSIVE find_cycles_traced(_, _, _, _, _, _, _)
find_cycles_loop(g, k, used, tr) ==
    IF k > 2 * Len(g.edges) THEN tr
    ELSE find_cycles_try(g, k, used, tr, (k + 1) \div 2,
            g.edges[(k + 1) \div 2].node_ids[IF k % 2 = 1 THEN 1 ELSE 2])

find_cycles_try(g, k, used, tr, edge, start_node_id) ==
    IF already_used(<<edge, start_node_id>>, used)
    THEN find_cycles_loop(g, k + 1, used, tr)
    ELSE find_cycles_traced(g, k, used, tr, edge, start_node_id,
                            trace_cycle(g, edge, start_node_id, used))

find_cycles_traced(g, k, used, tr, edge, start_node_id, t) ==
    find_cycles_loop(g, k + 1, t.used,
                     Append(tr, TraceRecord(edge, start_node_id, used, t)))

\* slip: no area filter
area_filter_off(cycles, area) == cycles

\* the min_area filter of find_cycles
area_filter(cycles, area) ==
    SelectSeq(cycles, LAMBDA c : polygon_area(c) >= area)

\* the cycles found by the traces tr, as position lists
CyclesOf(g, found) ==
    [i \in 1..Len(found) |-> Positions(g, found[i].cycle)]

\* the end of find_cycles: the outer boundary goes if several cycles are left
find_cycles_return(tr, filtered_cycles) ==
    [traces |-> tr,
     filtered |-> filtered_cycles,
     result |-> IF Len(filtered_cycles) > 1
                THEN remove_outer_boundary(filtered_cycles)
                ELSE filtered_cycles]

find_cycles_filter(g, area, tr) ==
    find_cycles_return(tr,
        area_filter(CyclesOf(g, SelectSeq(tr, LAMBDA t : t.ok)), area))

\* find_cycles: the traces made, the cycles left by the area filter, and
\* the returned list
find_cycles(g, area) ==
    IF Len(g.edges) = 0
    THEN [traces |-> <<>>, filtered |-> <<>>, result |-> <<>>]
    ELSE find_cycles_filter(g, area, find_cycles_loop(g, 1, {}, <<>>))

-----------------------------------------------------------------------------
(* The drawings fed to add_wall.  A wall is [id, points]; a drawing is      *)
(* [name, walls, cap, polygon, rooms, outline]: cap bounds the edges it may *)
(* build, polygon is the ring the walls form (<<>> if they form none),      *)
(* rooms / outline are the rooms and the outline of a subdivided floor.     *)

Wall(id, points) == [id |-> id, points |-> points]

Drawing(name, walls, cap, polygon, rooms, outline) ==
    [name |-> name, walls |-> walls, cap |-> cap, polygon |-> polygon,
     rooms |-> rooms, outline |-> outline]

\* the sides of a ring, one wall each, drawn in ring order
Sides(ring) ==
    {Wall(i, <<ring[i], ring[IF i = Len(ring) THEN 1 ELSE i + 1]>>) :
        i \in 1..Len(ring)}

\* test_single_rectangle_room: a 5 m x 4 m rectangle
RectRing == << <<0, 0>>, <<100, 0>>, <<100, 80>>, <<0, 80>> >>

\* test_filters_tiny_cycles: a 0.1 m x 0.1 m loop
TinyRing == << <<0, 0>>, <<2, 0>>, <<2, 2>>, <<0, 2>> >>

\* a triangle with legs of 3 m
TriangleRing == << <<0, 0>>, <<60, 0>>, <<0, 60>> >>

\* test_l_shaped_room, two of its corners drawn as polylines
LWalls ==
    {Wall(1, << <<0, 0>>, <<80, 0>> >>),
     Wall(2, << <<80, 0>>, <<80, 40>>, <<40, 40>> >>),
     Wall(3, << <<40, 80>>, <<40, 40>> >>),
     Wall(4, << <<40, 80>>, <<0, 80>>, <<0, 0>> >>)}

LRing == << <<0, 0>>, <<80, 0>>, <<80, 40>>, <<40, 40>>, <<40, 80>>, <<0, 80>> >>

\* test_no_cycles_from_open_walls: three sides of the rectangle
OpenWalls == {Wall(1, << <<0, 0>>, <<100, 0>> >>),
              Wall(2, << <<100, 0>>, <<100, 80>> >>),
              Wall(3, << <<100, 80>>, <<0, 80>> >>)}

\* test_two_adjacent_rooms: the second room drawn as one polyline
TwoRoomWalls ==
    Sides(RectRing) \cup
    {Wall(5, << <<100, 0>>, <<200, 0>>, <<200, 80>>, <<100, 80>> >>)}

TwoRoomRooms ==
    {RectRing, << <<100, 0>>, <<200, 0>>, <<200, 80>>, <<100, 80>> >>}

TwoRoomOutline ==
    << <<0, 0>>, <<100, 0>>, <<200, 0>>, <<200, 80>>, <<100, 80>>, <<0, 80>> >>

\* a 10 m x 4 m floor cut at x = 5 m, its left half cut again at y = 2 m
ThreeRoomWalls ==
    {Wall(1, << <<0, 0>>, <<100, 0>>, <<200, 0>>, <<200, 80>>, <<100, 80>>,
                <<0, 80>>, <<0, 40>>, <<0, 0>> >>),
     Wall(2, << <<100, 80>>, <<100, 40>>, <<100, 0>> >>),
     Wall(3, << <<0, 40>>, <<100, 40>> >>)}

ThreeRoomRooms ==
    {<< <<0, 0>>, <<100, 0>>, <<100, 40>>, <<0, 40>> >>,
     << <<0, 40>>, <<100, 40>>, <<100, 80>>, <<0, 80>> >>,
     << <<100, 0>>, <<200, 0>>, <<200, 80>>, <<100, 80>>, <<100, 40>> >>}

ThreeRoomOutline ==
    << <<0, 0>>, <<100, 0>>, <<200, 0>>, <<200, 80>>, <<100, 80>>, <<0, 80>>,
       <<0, 40>> >>

\* endpoints at, within and beyond the snap tolerance of one another
\* (test_snap_tolerance_merges_nearby_endpoints, test_no_merge_beyond_
\* tolerance), a zero-length wall and a one-point wall
SnapWalls ==
    {Wall(1, << <<0, 0>>, <<100, 0>> >>),
     Wall(2, << <<101, 0>>, <<101, 100>> >>),
     Wall(3, << <<2, 0>>, <<101, 100>> >>),
     Wall(4, << <<100, 1>>, <<1, 0>> >>),
     Wall(5, << <<50, 50>>, <<50, 50>> >>),
     Wall(6, << <<7, 7>> >>)}

\* every segment between four points of which three are collinear, so
\* that some walls overlap: triangles, a degenerate (flat) triangle, forks
SketchWalls ==
    {Wall(1, << <<0, 0>>, <<40, 0>> >>),
     Wall(2, << <<80, 0>>, <<40, 0>> >>),
     Wall(3, << <<0, 0>>, <<80, 0>> >>),
     Wall(4, << <<40, 40>>, <<0, 0>> >>),
     Wall(5, << <<40, 0>>, <<40, 40>> >>),
     Wall(6, << <<80, 0>>, <<40, 40>> >>)}

\* two adjacent rooms, each drawn as one polyline, and two walls that run
\* on 2 m past a corner of the floor
StubWalls ==
    {Wall(1, << <<0, 0>>, <<100, 0>>, <<100, 80>>, <<0, 80>>, <<0, 0>> >>),
     Wall(2, << <<100, 0>>, <<200, 0>>, <<200, 80>>, <<100, 80>> >>),
     Wall(3, << <<200, 80>>, <<200, 120>> >>),
     Wall(4, << <<0, 0>>, <<-40, 0>> >>)}

\* two detached buildings of one room each, 7 m apart
TwoBuildingWalls ==
    {Wall(1, << <<0, 0>>, <<60, 0>>, <<0, 60>>, <<0, 0>> >>),
     Wall(2, << <<200, 0>>, <<300, 0>>, <<300, 80>>, <<200, 80>>,
                <<200, 0>> >>)}

Drawings ==
    {Drawing("rectangle", Sides(RectRing), 4, RectRing, {}, <<>>),
     Drawing("tiny", Sides(TinyRing), 4, TinyRing, {}, <<>>),
     Drawing("triangle", Sides(TriangleRing), 3, TriangleRing, {}, <<>>),
     Drawing("l_shape", LWalls, 6, LRing, {}, <<>>),
     Drawing("open", OpenWalls, 3, <<>>, {}, <<>>),
     Drawing("two_rooms", TwoRoomWalls, 7, <<>>, TwoRoomRooms, TwoRoomOutline),
     Drawing("three_rooms", ThreeRoomWalls, 10, <<>>, ThreeRoomRooms,
             ThreeRoomOutline),
     Drawing("stubs", StubWalls, 9, <<>>, {}, <<>>),
     Drawing("two_buildings", TwoBuildingWalls, 7, <<>>, {}, <<>>),
     Drawing("snap", SnapWalls, MaxEdges, <<>>, {}, <<>>),
     Drawing("sketch", SketchWalls, MaxEdges, <<>>, {}, <<>>)}

-----------------------------------------------------------------------------
(* The state machine *)

Init ==
    /\ plan \in Drawings
    /\ nodes = <<>>
    /\ edges = <<>>
    /\ edge_set = {}
    /\ op = "init"
    /\ resolved = <<>>
    /\ segments = <<>>
    /\ min_area = 0
    /\ traces = <<>>
    /\ filtered = <<>>
    /\ result = <<>>
    /\ calls = 0
    /\ openai_service = None
    /\ cop = "init"
    /\ room_polygons = <<>>
    /\ doors = <<>>
    /\ windows = <<>>
    /\ contexts = <<>>
    /\ responses = <<>>
    /\ results = <<>>
    /\ chat_calls = <<>>
    /\ floor_rooms = <<>>
    /\ modelspace = <<>>
    /\ raised = NoException

\* what a call r = add_wall(...) leaves behind
AddWallDone(r) ==
    /\ nodes' = r.g.nodes
    /\ edges' = r.g.edges
    /\ edge_set' = r.g.edge_set
    /\ resolved' = r.resolved
    /\ segments' = r.segments

\* graph.add_wall(wall)
AddWall(wall, scan) ==
    /\ Len(edges) < plan.cap
    /\ AddWallDone(add_wall(Graph, wall, scan))
    /\ op' = "add_wall"
    /\ min_area' = 0
    /\ traces' = <<>>
    /\ filtered' = <<>>
    /\ result' = <<>>
    /\ calls' = 0
    /\ UNCHANGED <<plan, cvars>>

\* what a call r = find_cycles(...) leaves behind
FindCyclesDone(r) ==
    /\ traces' = r.traces
    /\ filtered' = r.filtered
    /\ result' = r.result

\* slip: find_cycles consumes the edges it iterates over
FindCyclesConsuming(area) ==
    /\ FindCyclesDone(find_cycles(Graph, area))
    /\ op' = "find_cycles"
    /\ min_area' = area
    /\ resolved' = <<>>
    /\ segments' = <<>>
    /\ calls' = IF calls < 2 THEN calls + 1 ELSE calls
    /\ edges' = <<>>
    /\ UNCHANGED <<plan, nodes, edge_set, cvars>>

\* graph.find_cycles(min_area=area)
FindCycles(area) ==
    /\ FindCyclesDone(find_cycles(Graph, area))
    /\ op' = "find_cycles"
    /\ min_area' = area
    /\ resolved' = <<>>
    /\ segments' = <<>>
    /\ calls' = IF calls < 2 THEN calls + 1 ELSE calls
    /\ UNCHANGED <<plan, nodes, edges, edge_set, cvars>>

Next ==
    \/ \E wall \in plan.walls, scan \in ScanOrders : AddWall(wall, scan)
    \/ \E area \in MinAreas : FindCycles(area)

Spec == Init /\ [][Next]_vars

-----------------------------------------------------------------------------
(* Vocabulary of the properties *)

\* every wall of a ring or floor drawing has been added
Built == Len(edges) = plan.cap

Found == op = "find_cycles"

OkTraces == {i \in 1..Len(traces) : traces[i].ok}

Incident(n) == {e \in 1..Len(edges) :
                    edges[e].node_ids[1] = n \/ edges[e].node_ids[2] = n}

\* what is left of the edge set E after repeatedly removing every edge
\* that ends in a node of degree one: nothing iff E has no closed loop
RECURSIVE Core(_)
Core(E) ==
    LET deg(n) == Cardinality({e \in E : edges[e].node_ids[1] = n
                                        \/ edges[e].node_ids[2] = n})
        leaf == {e \in E : deg(edges[e].node_ids[1]) = 1
                            \/ deg(edges[e].node_ids[2]) = 1}
    IN IF leaf = {} THEN E ELSE Core(E \ leaf)

Acyclic == Core(1..Len(edges)) = {}

\* cycles[i] removed from the list
Without(cycles, i) ==
    [k \in 1..(Len(cycles) - 1) |-> IF k < i THEN cycles[k] ELSE cycles[k + 1]]

-----------------------------------------------------------------------------
(* C1 *)

\* C1 as stated: once the N walls of a closed polygon are added,
\* find_cycles returns exactly one cycle, made of the polygon's N vertices
\* and of the polygon's shoelace area.  Fails for a polygon smaller than
\* min_area, which is filtered out.
C1_AsStated ==
    (Found /\ plan.polygon # <<>> /\ Built) =>
        /\ Len(result) = 1
        /\ Len(result[1]) = Len(plan.polygon)
        /\ SeqToSet(result[1]) = SeqToSet(plan.polygon)
        /\ polygon_area(result[1]) = Abs(ShoelaceSum(plan.polygon, 1))

\* C1 amended: once the N walls of a closed polygon whose area is at least
\* min_area are added, find_cycles returns exactly one cycle, made of the
\* polygon's N vertices and of the polygon's shoelace area.
C1_SinglePolygon ==
    (/\ Found /\ plan.polygon # <<>> /\ Built
     /\ Abs(ShoelaceSum(plan.polygon, 1)) >= min_area) =>
        /\ Len(result) = 1
        /\ Len(result[1]) = Len(plan.polygon)
        /\ SeqToSet(result[1]) = SeqToSet(plan.polygon)
        /\ polygon_area(result[1]) = Abs(ShoelaceSum(plan.polygon, 1))

C1_Witness ==
    /\ Found /\ plan.name = "l_shape" /\ Built
    /\ min_area = DefaultMinArea
    /\ Len(result) = 1 /\ Len(result[1]) = 6
    /\ polygon_area(result[1]) = 2 * (80 * 80 - 40 * 40)

-----------------------------------------------------------------------------
(* C2 *)

RoomsReturned ==
    /\ Len(result) = Cardinality(plan.rooms)
    /\ {SeqToSet(result[i]) : i \in 1..Len(result)}
            = {SeqToSet(r) : r \in plan.rooms}
    /\ \A i \in 1..Len(result) : \E r \in plan.rooms :
            /\ SeqToSet(result[i]) = SeqToSet(r)
            /\ polygon_area(result[i]) = polygon_area(r)
    /\ \A i \in 1..Len(result) :
            SeqToSet(result[i]) # SeqToSet(plan.outline)

\* C2 as stated: for a rectangular outline subdivided into k >= 2 rooms,
\* find_cycles returns exactly the k room polygons and not the outline.
\* Fails when min_area exceeds the rooms' areas: the rooms are filtered out
\* and the outline is what is returned.
C2_AsStated ==
    (Found /\ plan.rooms # {} /\ Built) => RoomsReturned

\* C2 amended: for a rectangular outline subdivided into k >= 2 rooms, each
\* of area at least min_area, find_cycles returns exactly the k room
\* polygons and not the outline.
C2_Rooms ==
    (/\ Found /\ plan.rooms # {} /\ Built
     /\ \A r \in plan.rooms : polygon_area(r) >= min_area) => RoomsReturned

C2_Witness ==
    /\ Found /\ plan.name = "three_rooms" /\ Built
    /\ min_area = DefaultMinArea
    /\ Len(result) = 3

-----------------------------------------------------------------------------
(* C3 *)

\* C3: when more than one cycle is left by the min_area filter, the result
\* is that list less one cycle of largest area; when exactly one is left,
\* it is returned unchanged.  The code removes nothing when every cycle
\* left has area 0 (min_area 0, flat cycles over collinear nodes).
C3_OuterBoundaryRemoved ==
    Found =>
        /\ Len(filtered) > 1 =>
              \E i \in 1..Len(filtered) :
                  /\ result = Without(filtered, i)
                  /\ \A j \in 1..Len(filtered) :
                        polygon_area(filtered[j]) <= polygon_area(filtered[i])
        /\ Len(filtered) = 1 => result = filtered

-----------------------------------------------------------------------------
(* C4 *)

\* C4 as stated: whenever some node has exactly one incident edge (a
\* dangling endpoint), find_cycles returns no cycle.  Fails for a closed
\* loop with a dangling wall attached or elsewhere in the drawing.
C4_AsStated ==
    (Found /\ \E n \in 1..Len(nodes) : Cardinality(Incident(n)) = 1) =>
        result = <<>>

\* C4 amended: for any set of walls that contains no closed loop (the wall
\* graph is acyclic, as with three sides of a rectangle), no trace succeeds
\* and find_cycles returns 0 cycles.
C4_NoLoopNoCycle ==
    (Found /\ Acyclic) => (result = <<>> /\ OkTraces = {})

C4_Witness ==
    /\ Found /\ plan.name = "open" /\ Built
    /\ Acyclic /\ min_area = 0
    /\ \E i \in 1..Len(traces) : traces[i].why = "dead_end"
    /\ result = <<>>

-----------------------------------------------------------------------------
(* C5 *)

\* C5: every polygon find_cycles(min_area) returns has area >= min_area,
\* and a wall loop enclosing less than min_area yields 0 cycles.
C5_MinArea ==
    Found =>
        /\ \A i \in 1..Len(result) : polygon_area(result[i]) >= min_area
        /\ (/\ plan.polygon # <<>> /\ Built
            /\ Abs(ShoelaceSum(plan.polygon, 1)) < min_area) => result = <<>>

C5_Witness ==
    /\ Found /\ plan.name = "tiny" /\ Built
    /\ min_area = DefaultMinArea
    /\ Cardinality(OkTraces) = 2
    /\ result = <<>>

-----------------------------------------------------------------------------
(* C6 *)

\* C6: every edge joins two distinct nodes that both exist, and no two
\* edges join the same unordered pair of nodes.
C6_EdgesWellFormed ==
    /\ \A e \in 1..Len(edges) :
          /\ edges[e].node_ids[1] # edges[e].node_ids[2]
          /\ edges[e].node_ids[1] \in 1..Len(nodes)
          /\ edges[e].node_ids[2] \in 1..Len(nodes)
    /\ \A e, f \in 1..Len(edges) :
          e # f => {edges[e].node_ids[1], edges[e].node_ids[2]}
                    # {edges[f].node_ids[1], edges[f].node_ids[2]}

C6_Witness ==
    /\ op = "add_wall" /\ Len(edges) >= 3
    /\ \E k \in 1..Len(segments) : segments[k].outcome = "degenerate"
    /\ \E e \in 1..Len(edges) : edges[e].node_ids[1] > edges[e].node_ids[2]

-----------------------------------------------------------------------------
(* C7 *)

\* the nodes that existed when resolution r was made and lay within the
\* snap tolerance of its position
WithinSnap(r) ==
    {i \in 1..r.known :
        Dist2(r.position, nodes[i].position) <= SnapTolerance * SnapTolerance}

\* C7: an endpoint within snap_tolerance of some existing node resolves to
\* a nearest such node and creates no node; an endpoint farther than
\* snap_tolerance from every existing node creates exactly one node, at
\* that position.
C7_Snapping ==
    op = "add_wall" =>
        /\ \A k \in 1..Len(resolved) :
            LET r == resolved[k]
                after == IF k < Len(resolved) THEN resolved[k + 1].known
                         ELSE Len(nodes)
            IN /\ WithinSnap(r) # {} =>
                    /\ ~r.created
                    /\ r.id \in WithinSnap(r)
                    /\ \A j \in WithinSnap(r) :
                          Dist2(r.position, nodes[r.id].position)
                              <= Dist2(r.position, nodes[j].position)
                    /\ after = r.known
               /\ WithinSnap(r) = {} =>
                    /\ r.created
                    /\ r.id = r.known + 1
                    /\ nodes[r.id].position = r.position
                    /\ after = r.known + 1

C7_Witness ==
    /\ op = "add_wall"
    /\ \E k \in 1..Len(resolved) :
          /\ ~resolved[k].created
          /\ Dist2(resolved[k].position,
                   nodes[resolved[k].id].position) = 1
    /\ \E k \in 1..Len(resolved) : resolved[k].created

-----------------------------------------------------------------------------
(* C8 *)

\* the segments of the add_wall just made are all degenerate or duplicate:
\* each resolved to one node, or to two nodes that already shared an edge
AllRejected(segs, keys) ==
    /\ segs # <<>>
    /\ \A k \in 1..Len(segs) :
          \/ segs[k].a = segs[k].b
          \/ <<segs[k].a, segs[k].b>> \in keys
          \/ <<segs[k].b, segs[k].a>> \in keys

\* C8: add_wall of a degenerate or duplicate segment adds no edge and
\* changes no existing node's incident-edge list.
C8_RejectedSegment ==
    [][(op' = "add_wall" /\ AllRejected(segments', edge_set)) =>
          /\ edges' = edges
          /\ edge_set' = edge_set
          /\ \A n \in 1..Len(nodes) : nodes'[n] = nodes[n]]_vars

C8_Witness ==
    /\ op = "add_wall"
    /\ \E k \in 1..Len(segments) : \E e \in 1..Len(edges) :
          /\ segments[k].outcome = "duplicate"
          /\ edges[e].node_ids = <<segments[k].b, segments[k].a>>
    /\ \A k \in 1..Len(segments) : segments[k].outcome # "added"

-----------------------------------------------------------------------------
(* C9 *)

\* C9: within one find_cycles call every directed edge belongs to at most
\* one traced cycle and occurs at most once in it.
C9_DirectedEdgeOnce ==
    Found =>
        \A i, j \in OkTraces :
            \A k \in 1..Len(traces[i].cycle_edges),
               l \in 1..Len(traces[j].cycle_edges) :
                (traces[i].cycle_edges[k] = traces[j].cycle_edges[l])
                    => (i = j /\ k = l)

C9_Witness ==
    /\ Found /\ plan.name = "two_rooms" /\ Built
    /\ Cardinality(OkTraces) = 3
    /\ Len(traces) = 3

-----------------------------------------------------------------------------
(* C10 *)

C11_FindCyclesTerminates ==
    Found =>
        /\ Len(traces) <= 2 * Len(edges)
        /\ \A i \in 1..Len(traces) :
              /\ traces[i].steps <= 2 * Len(edges) + 10
              /\ traces[i].why \in {"closed", "used", "dead_end",
                                    "max_iterations"}
              /\ traces[i].ok <=> traces[i].why = "closed"
              /\ ~traces[i].ok =>
                    traces[i].cycle = <<>> /\ traces[i].marked = {}
        /\ \A j \in 1..Len(result) :
              \E i \in OkTraces : result[j] = Positions(Graph, traces[i].cycle)

C11_Witness ==
    /\ Found
    /\ \E i \in 1..Len(traces) :
          /\ traces[i].why = "max_iterations"
          /\ traces[i].steps = 2 * Len(edges) + 10
    /\ \E i \in 1..Len(traces) : traces[i].why = "dead_end"

-----------------------------------------------------------------------------
(* Room classification: core/dwg_parser/room_classifier.py               *)
(*                                                                         *)
(* Confidences and text scores are integers in hundredths (0.6 = 60).      *)
(* Block names and labels are strings, matched as the source matches them: *)
(* lower-cased, then searched for each pattern as a substring.             *)

\* the largest number of fixtures in a room context
MaxFixtures == 7

\* the largest number of contexts handed to classify_batch
MaxBatch == 2

\* the largest number of doors of a floor plan
MaxMarkers == 2

\* the keys of FIXTURE_PATTERNS in the order the dict is iterated
FixtureRoomTypes ==
    <<"bathroom", "kitchen", "laundry", "bedroom", "living_room",
      "dining_room", "office", "garage">>

FIXTURE_PATTERNS ==
    [
     bathroom |->
        <<"toilet", "wc", "sink", "basin", "shower", "tub", "bath",
          "bidet", "vanity", "lavatory">>,
     kitchen |->
        <<"stove", "oven", "fridge", "refrigerator", "sink", "dishwasher",
          "range", "cooktop", "microwave", "counter">>,
     laundry |->
        <<"washer", "dryer", "washing", "laundry", "iron">>,
     bedroom |->
        <<"bed", "mattress", "wardrobe", "closet", "nightstand">>,
     living_room |->
        <<"sofa", "couch", "tv", "television", "fireplace", "coffee_table">>,
     dining_room |->
        <<"dining", "table", "chairs">>,
     office |->
        <<"desk", "computer", "bookshelf", "filing">>,
     garage |->
        <<"car", "vehicle", "garage_door">>
    ]

\* the keys of TEXT_PATTERNS in the order the dict is iterated
TextRoomTypes ==
    <<"living_room", "bedroom", "bathroom", "kitchen", "hallway",
      "closet", "garage", "dining_room", "office", "laundry", "pantry",
      "balcony", "conference_room", "reception", "lobby", "storage",
      "utility">>

TEXT_PATTERNS ==
    [
     living_room |->
        <<"living", "lounge", "family room", "great room", "sitting">>,
     bedroom |->
        <<"bedroom", "bed room", "master bed", "guest room", "sleeping">>,
     bathroom |->
        <<"bathroom", "bath room", "restroom", "toilet", "wc", "lavatory",
          "powder room", "half bath", "full bath">>,
     kitchen |->
        <<"kitchen", "kitchenette", "cook">>,
     hallway |->
        <<"hallway", "hall", "corridor", "passage", "entry", "foyer">>,
     closet |->
        <<"closet", "wardrobe", "storage", "pantry">>,
     garage |->
        <<"garage", "carport", "parking">>,
     dining_room |->
        <<"dining", "breakfast", "eat-in">>,
     office |->
        <<"office", "study", "den", "library", "work room">>,
     laundry |->
        <<"laundry", "utility", "mud room">>,
     pantry |->
        <<"pantry", "larder">>,
     balcony |->
        <<"balcony", "terrace", "patio", "deck", "porch">>,
     conference_room |->
        <<"conference", "meeting", "board room">>,
     reception |->
        <<"reception", "lobby", "waiting">>,
     lobby |->
        <<"lobby", "entrance", "vestibule">>,
     storage |->
        <<"storage", "store", "attic", "basement">>,
     utility |->
        <<"utility", "mechanical", "hvac", "electrical">>
    ]

ROOM_TYPES ==
    {"living_room", "bedroom", "bathroom", "kitchen", "hallway", "closet",
     "garage", "dining_room", "office", "laundry", "pantry", "balcony",
     "conference_room", "reception", "lobby", "storage", "utility",
     "unknown"}

Min(a, b) == IF a <= b THEN a ELSE b

UpperCase ==
    <<"A", "B", "C", "D", "E", "F", "G", "H", "I", "J", "K", "L", "M",
      "N", "O", "P", "Q", "R", "S", "T", "U", "V", "W", "X", "Y", "Z">>

LowerCase ==
    <<"a", "b", "c", "d", "e", "f", "g", "h", "i", "j", "k", "l", "m",
      "n", "o", "p", "q", "r", "s", "t", "u", "v", "w", "x", "y", "z">>

\* the lower-case letter of an upper-case one, any other character as it is
lower_char(c) ==
    IF \E k \in 1..26 : UpperCase[k] = c
    THEN LowerCase[CHOOSE k \in 1..26 : UpperCase[k] = c]
    ELSE c

\* str.lower()
RECURSIVE lower(_)
lower(s) ==
    IF Len(s) = 0 THEN ""
    ELSE lower_char(SubSeq(s, 1, 1)) \o lower(SubSeq(s, 2, Len(s)))

\* "pattern in text"
contains(pattern, text) ==
    \E i \in 1..(Len(text) - Len(pattern) + 1) :
        SubSeq(text, i, i + Len(pattern) - 1) = pattern

\* an Optional[Tuple[str, float]] that is None
NoResult == [found |-> FALSE]

\* room_scores is a dict: a sequence of [room_type, score] in the order
\* the keys were inserted
Keys(room_scores) ==
    {room_scores[i].room_type : i \in 1..Len(room_scores)}

\* max(room_scores, key=room_scores.get): the first key with the greatest
\* score
max_key(room_scores) ==
    CHOOSE i \in 1..Len(room_scores) :
        /\ \A j \in 1..Len(room_scores) :
              room_scores[j].score <= room_scores[i].score
        /\ \A j \in 1..(i - 1) : room_scores[j].score < room_scores[i].score

\* the patterns loop of _infer_from_fixtures with its break: 1 if some
\* pattern of the category is in the fixture name, else 0
fixture_matches(patterns, fixture_lower) ==
    IF \E k \in 1..Len(patterns) : contains(patterns[k], fixture_lower)
    THEN 1 ELSE 0

\* the room types a fixture gives their first match, in dict order
fixture_new_types(room_scores, fixture_lower) ==
    SelectSeq(FixtureRoomTypes,
              LAMBDA rt : /\ rt \notin Keys(room_scores)
                          /\ fixture_matches(FIXTURE_PATTERNS[rt],
                                             fixture_lower) = 1)

FirstMatch(types) ==
    [k \in 1..Len(types) |-> [room_type |-> types[k], score |-> 1]]

\* the room types loop of _infer_from_fixtures for one fixture:
\* room_scores[room_type] = room_scores.get(room_type, 0) + 1 for every
\* room type with a pattern in the fixture name
fixture_counted(room_scores, fixture_lower) ==
    [i \in 1..Len(room_scores) |->
        [room_scores[i] EXCEPT !.score =
            @ + fixture_matches(FIXTURE_PATTERNS[room_scores[i].room_type],
                                fixture_lower)]]
        \o FirstMatch(fixture_new_types(room_scores, fixture_lower))

\* the fixtures loop of _infer_from_fixtures
RECURSIVE fixture_scores(_, _, _)
fixture_scores(fixtures, i, room_scores) ==
    IF i > Len(fixtures) THEN room_scores
    ELSE fixture_scores(fixtures, i + 1,
                        fixture_counted(room_scores, lower(fixtures[i])))

\* slip: a flat 0.75 from two matches on
fixture_confidence_flat(match_count) ==
    IF match_count = 1 THEN 60 ELSE 75

\* the confidence of match_count matching fixtures
fixture_confidence(match_count) ==
    IF match_count = 1 THEN 60
    ELSE IF match_count = 2 THEN 75
    ELSE Min(95, 75 + (match_count - 2) * 5)

fixture_best(best) ==
    [found |-> TRUE, room_type |-> best.room_type,
     confidence |-> fixture_confidence(best.score)]

fixture_choice(room_scores) ==
    IF Len(room_scores) = 0 THEN NoResult
    ELSE fixture_best(room_scores[max_key(room_scores)])

\* _infer_from_fixtures
infer_from_fixtures(context) ==
    IF Len(context.fixtures) = 0 THEN NoResult
    ELSE fixture_choice(fixture_scores(context.fixtures, 1, <<>>))

\* slip: every keyword scores the same
pattern_score_flat(pattern) == 30

\* score = len(pattern) / 10.0
pattern_score(pattern) == Len(pattern) * 10

\* the greatest score of the patterns found in the text, 0 if none is
text_match(patterns, text_lower) ==
    IF \E k \in 1..Len(patterns) : contains(patterns[k], text_lower)
    THEN CHOOSE v \in {pattern_score(patterns[k]) : k \in 1..Len(patterns)} :
            \E k \in 1..Len(patterns) :
                /\ contains(patterns[k], text_lower)
                /\ pattern_score(patterns[k]) = v
                /\ \A n \in 1..Len(patterns) :
                      contains(patterns[n], text_lower)
                          => pattern_score(patterns[n]) <= v
    ELSE 0

\* the room types a text gives their first score, in dict order
text_new_types(room_scores, text_lower) ==
    SelectSeq(TextRoomTypes,
              LAMBDA rt : /\ rt \notin Keys(room_scores)
                          /\ text_match(TEXT_PATTERNS[rt], text_lower) > 0)

FirstScore(types, text_lower) ==
    [k \in 1..Len(types) |->
        [room_type |-> types[k],
         score |-> text_match(TEXT_PATTERNS[types[k]], text_lower)]]

Max(a, b) == IF a >= b THEN a ELSE b

\* the room types and patterns loops of _infer_from_text for one text:
\* room_scores[room_type] = max(room_scores.get(room_type, 0), score) for
\* every pattern found in the text
text_scored(room_scores, text_lower) ==
    [i \in 1..Len(room_scores) |->
        [room_scores[i] EXCEPT !.score =
            Max(@, text_match(TEXT_PATTERNS[room_scores[i].room_type],
                              text_lower))]]
        \o FirstScore(text_new_types(room_scores, text_lower), text_lower)

\* the texts loop of _infer_from_text
RECURSIVE text_scores(_, _, _)
text_scores(texts, i, room_scores) ==
    IF i > Len(texts) THEN room_scores
    ELSE text_scores(texts, i + 1,
                     text_scored(room_scores, lower(texts[i])))

\* slip: the confidence does not start from 0.5
text_best_unbased(best) ==
    [found |-> TRUE, room_type |-> best.room_type,
     confidence |-> Min(85, 2 * best.score)]

text_best(best) ==
    [found |-> TRUE, room_type |-> best.room_type,
     confidence |-> Min(85, 50 + best.score)]

text_choice(room_scores) ==
    IF Len(room_scores) = 0 THEN NoResult
    ELSE text_best(room_scores[max_key(room_scores)])

\* _infer_from_text
infer_from_text(context) ==
    IF Len(context.nearby_text) = 0 THEN NoResult
    ELSE text_choice(text_scores(context.nearby_text, 1, <<>>))

-----------------------------------------------------------------------------
(* The AI tier.  What the collaborator does when chat_completion is called *)
(* is an input record:                                                     *)
(*   kind    "raise": chat_completion raises an Exception;                 *)
(*           "reply": it returns text                                      *)
(*   slow    it takes more than the 30 s future.result waits               *)
(*   running the caller is inside a running event loop                     *)
(*   fence   how the reply wraps the JSON: "" not at all, "fence" in a     *)
(*           markdown code block, "fence json" / "fence JSON" in a code    *)
(*           block tagged json / JSON                                      *)
(*   body    the JSON text: [json |-> "garbage"] does not parse,           *)
(*           [json |-> "array"] parses to a list, [json |-> "object",      *)
(*           fields |-> f] parses to a dict f of JSON values               *)
(* JSON values are tagged by t: a string s ("str"), a number n in          *)
(* hundredths ("num"), null, or a list.                                    *)

Str(s) == [t |-> "str", s |-> s, n |-> 0]

Num(n) == [t |-> "num", s |-> "", n |-> n]

Null == [t |-> "null", s |-> "", n |-> 0]

List == [t |-> "list", s |-> "", n |-> 0]

\* an Optional[RoomClassification] that is None
NoClassification == [found |-> FALSE]

RoomClassification(room_type, confidence, reasoning) ==
    [room_type |-> room_type, confidence |-> confidence,
     reasoning |-> reasoning]

Some(classification) == [found |-> TRUE, classification |-> classification]

\* RoomClassification.is_low_confidence
is_low_confidence(classification) == classification.confidence < 50

\* the text json.loads is given: the reply itself, or what lies between
\* the code fences, less a leading "json"; any other tag stays in the text
fenced_body(reply) ==
    IF reply.fence \in {"", "fence", "fence json"} THEN reply.body
    ELSE [json |-> "garbage"]

\* data.get(key, default)
dict_get(data, key, default) ==
    IF key \in DOMAIN data THEN data[key] ELSE default

\* the strings float() accepts, with their values
NumericStrings == [t \in {"0.9"} |-> 90]

\* float(value): [ok, v]; a string that is no number, None and a list raise
float_of(value) ==
    IF value.t = "num" THEN [ok |-> TRUE, v |-> value.n]
    ELSE IF value.t = "str" /\ value.s \in DOMAIN NumericStrings
    THEN [ok |-> TRUE, v |-> NumericStrings[value.s]]
    ELSE [ok |-> FALSE, v |-> 0]

\* slip: an unrecognised room type is passed through
validated_unchecked(room_type, confidence, reasoning) ==
    IF ~confidence.ok \/ room_type.t # "str" THEN NoClassification
    ELSE Some(RoomClassification(room_type.s, confidence.v,
                                 <<"ai", <<reasoning.s>>>>))

\* "if room_type not in ROOM_TYPES": a list is unhashable and raises,
\* any other value not in the set gives unknown / 0.0
validated(room_type, confidence, reasoning) ==
    IF ~confidence.ok \/ room_type.t = "list" THEN NoClassification
    ELSE IF room_type.t = "str" /\ room_type.s \in ROOM_TYPES
    THEN Some(RoomClassification(room_type.s, confidence.v,
                                 <<"ai", <<reasoning.s>>>>))
    ELSE Some(RoomClassification("unknown", 0, <<"ai", <<reasoning.s>>>>))

\* the three data.get calls on the parsed dict
from_dict(data) ==
    validated(dict_get(data, "room_type", Str("unknown")),
              float_of(dict_get(data, "confidence", Num(50))),
              dict_get(data, "reasoning", Str("AI classification")))

\* json.loads and what follows: text that does not parse raises
\* JSONDecodeError, a list has no get(); both are caught
from_json(body) ==
    IF body.json = "object" THEN from_dict(body.fields)
    ELSE NoClassification

\* _async_classify_with_ai: None when chat_completion raises
async_classify_with_ai(ai) ==
    IF ai.kind = "raise" THEN NoClassification
    ELSE from_json(fenced_body(ai))

\* _classify_with_ai: inside a running loop the reply is awaited in a
\* worker thread for 30 s, else the loop is run until the reply is there
classify_with_ai(ai) ==
    IF ai.running /\ ai.slow THEN NoClassification
    ELSE async_classify_with_ai(ai)

Unknown ==
    RoomClassification("unknown", 0,
        <<"No fixtures, text labels, or AI classification available", <<>>>>)

Outcome(classification, tier, chat) ==
    [classification |-> classification, tier |-> tier, chat_calls |-> chat]

\* classify from "Priority 3" on, ai_result being what _classify_with_ai
\* returned
classify_ai_result(ai_result) ==
    IF ai_result.found THEN Outcome(ai_result.classification, "ai", 1)
    ELSE Outcome(Unknown, "unknown", 1)

\* slip: one retry after a failed AI call
classify_ai_retry(service, ai) ==
    IF service # None
    THEN IF classify_with_ai(ai).found THEN classify_ai_result(classify_with_ai(ai))
         ELSE Outcome(Unknown, "unknown", 2)
    ELSE Outcome(Unknown, "unknown", 0)

\* classify, priority 3 and the fallback
classify_ai(service, ai) ==
    IF service # None THEN classify_ai_result(classify_with_ai(ai))
    ELSE Outcome(Unknown, "unknown", 0)

\* classify, priority 2
classify_text(context, service, ai, text_result) ==
    IF text_result.found
    THEN Outcome(RoomClassification(text_result.room_type,
                     text_result.confidence,
                     <<"Detected from text labels: ", context.nearby_text>>),
                 "text", 0)
    ELSE classify_ai(service, ai)

\* slip: the text labels are consulted before the fixtures
classify_fixtures_text_first(context, service, ai, fixture_result) ==
    IF infer_from_text(context).found
    THEN classify_text(context, service, ai, infer_from_text(context))
    ELSE IF fixture_result.found
    THEN Outcome(RoomClassification(fixture_result.room_type,
                     fixture_result.confidence,
                     <<"Detected from fixtures: ", context.fixtures>>),
                 "fixture", 0)
    ELSE classify_ai(service, ai)

\* classify, priority 1
classify_fixtures(context, service, ai, fixture_result) ==
    IF fixture_result.found
    THEN Outcome(RoomClassification(fixture_result.room_type,
                     fixture_result.confidence,
                     <<"Detected from fixtures: ", context.fixtures>>),
                 "fixture", 0)
    ELSE classify_text(context, service, ai, infer_from_text(context))

\* RoomClassifier.classify for a classifier with openai_service = service:
\* the classification returned, the tier that decided, and the number of
\* chat_completion calls made
classify(context, service, ai) ==
    classify_fixtures(context, service, ai, infer_from_fixtures(context))

\* slip: the batch stops at the first context the AI tier leaves undecided
RECURSIVE classify_batch_aborting(_, _, _, _, _)
classify_batch_aborting(cs, service, ais, i, out) ==
    IF i > Len(cs) THEN out
    ELSE IF classify(cs[i], service, ais[i]).tier = "unknown"
    THEN out
    ELSE classify_batch_aborting(cs, service, ais, i + 1,
                        Append(out, classify(cs[i], service, ais[i])))

\* classify_batch: [self.classify(context) for context in contexts]
RECURSIVE classify_batch(_, _, _, _, _)
classify_batch(cs, service, ais, i, out) ==
    IF i > Len(cs) THEN out
    ELSE classify_batch(cs, service, ais, i + 1,
                        Append(out, classify(cs[i], service, ais[i])))

-----------------------------------------------------------------------------
(* Room contexts and rooms: parser.py, spatial_utils.py, elements.py *)

\* p lies on the closed segment from a to b
OnSegment(p, a, b) ==
    /\ Cross(<<b[1] - a[1], b[2] - a[2]>>, <<p[1] - a[1], p[2] - a[2]>>) = 0
    /\ Min(a[1], b[1]) <= p[1] /\ p[1] <= a[1] + b[1] - Min(a[1], b[1])
    /\ Min(a[2], b[2]) <= p[2] /\ p[2] <= a[2] + b[2] - Min(a[2], b[2])

Next1(polygon, i) == IF i = Len(polygon) THEN 1 ELSE i + 1

\* poly.boundary.contains(p): p lies on the closed ring of the polygon
boundary_contains(p, polygon) ==
    \E i \in 1..Len(polygon) :
        OnSegment(p, polygon[i], polygon[Next1(polygon, i)])

\* the side from a to b crosses the horizontal ray from p to the right
RayCrosses(p, a, b) ==
    \/ /\ a[2] <= p[2] /\ p[2] < b[2]
       /\ Cross(<<b[1] - a[1], b[2] - a[2]>>, <<p[1] - a[1], p[2] - a[2]>>) > 0
    \/ /\ b[2] <= p[2] /\ p[2] < a[2]
       /\ Cross(<<b[1] - a[1], b[2] - a[2]>>, <<p[1] - a[1], p[2] - a[2]>>) < 0

\* poly.contains(p): p lies in the interior of the polygon
polygon_contains(p, polygon) ==
    /\ ~boundary_contains(p, polygon)
    /\ Cardinality({i \in 1..Len(polygon) :
          RayCrosses(p, polygon[i], polygon[Next1(polygon, i)])}) % 2 = 1

\* slip: the boundary is left out
point_in_polygon_open(point, polygon) == polygon_contains(point, polygon)

\* point_in_polygon
point_in_polygon(point, polygon) ==
    polygon_contains(point, polygon) \/ boundary_contains(point, polygon)

\* the counting loops of _build_room_context
count_inside(positions, polygon) ==
    Cardinality({i \in 1..Len(positions) :
                    point_in_polygon(positions[i], polygon)})

Xs(polygon) == {polygon[i][1] : i \in 1..Len(polygon)}

Ys(polygon) == {polygon[i][2] : i \in 1..Len(polygon)}

Span(vs) == (CHOOSE v \in vs : \A w \in vs : w <= v)
                - (CHOOSE v \in vs : \A w \in vs : v <= w)

\* aspect_ratio = width / height if height > 0 else 1.0, as the pair
\* <<numerator, denominator>>
aspect_ratio(width, height) ==
    IF height > 0 THEN <<width, height>> ELSE <<1, 1>>

\* RoomContext(...); area is doubled as polygon_area is
RoomContext(polygon, door_count, window_count, fixtures, nearby_text) ==
    [polygon |-> polygon,
     area |-> polygon_area(polygon),
     aspect_ratio |-> aspect_ratio(Span(Xs(polygon)), Span(Ys(polygon))),
     door_count |-> door_count,
     window_count |-> window_count,
     fixtures |-> fixtures,
     nearby_text |-> nearby_text,
     adjacent_rooms |-> <<>>]

\* _build_room_context; found is what _detect_fixtures_in_polygon and
\* _find_text_near_centroid give for the polygon
build_room_context(polygon, ds, ws, found) ==
    RoomContext(polygon, count_inside(ds, polygon), count_inside(ws, polygon),
                found.fixtures, found.nearby_text)

\* the fields of the Room dataclass
RoomFields ==
    {"id", "name", "polygon", "floor_level", "ceiling_height", "room_type"}

RoomDefaults ==
    [id |-> "uuid", name |-> "", polygon |-> <<>>, floor_level |-> 0,
     ceiling_height |-> 3, room_type |-> "generic"]

\* Room(**kwargs): a keyword that is no field of the dataclass raises
\* TypeError
Room(kwargs) ==
    IF DOMAIN kwargs \subseteq RoomFields
    THEN [ok |-> TRUE,
          room |-> [f \in RoomFields |->
                      IF f \in DOMAIN kwargs THEN kwargs[f]
                      ELSE RoomDefaults[f]]]
    ELSE [ok |-> FALSE, error |-> "TypeError"]

\* squared length of each side; Room.perimeter sums their square roots
SideLengths2(polygon) ==
    [i \in 1..Len(polygon) |->
        Dist2(polygon[i], polygon[Next1(polygon, i)])]

RECURSIVE SumOver(_, _, _)
SumOver(polygon, k, i) ==
    IF i > Len(polygon) THEN 0
    ELSE polygon[i][k] + SumOver(polygon, k, i + 1)

\* Room.to_dict(): area doubled, perimeter as the squared side lengths,
\* centroid as the coordinate sums over the vertex count
to_dict(room) ==
    [id |-> room.id,
     name |-> room.name,
     polygon |-> room.polygon,
     floor_level |-> room.floor_level,
     ceiling_height |-> room.ceiling_height,
     room_type |-> room.room_type,
     area |-> polygon_area(room.polygon),
     perimeter |-> SideLengths2(room.polygon),
     centroid |-> <<SumOver(room.polygon, 1, 1), SumOver(room.polygon, 2, 1),
                    Len(room.polygon)>>]

\* the state _detect_rooms_from_walls has reached
Detection(cs, rs, chat, made, error) ==
    [contexts |-> cs, results |-> rs, chat_calls |-> chat, rooms |-> made,
     raised |-> error]

\* the loop of _detect_rooms_from_walls over the cycles: context,
\* classification, Room; an exception ends it
RECURSIVE detect_loop(_, _, _, _, _, _, _)
RECURSIVE detect_classified(_, _, _, _, _, _, _, _, _)
RECURSIVE detect_room(_, _, _, _, _, _, _, _, _)
detect_loop(polys, i, ds, ws, found, service, d) ==
    IF i > Len(polys) THEN d
    ELSE detect_classified(polys, i, ds, ws, found, service, d,
            build_room_context(polys[i], ds, ws, found),
            classify(build_room_context(polys[i], ds, ws, found), service,
                     found.ai))

detect_classified(polys, i, ds, ws, found, service, d, context, c) ==
    detect_room(polys, i, ds, ws, found, service,
        Detection(Append(d.contexts, context),
                  Append(d.results, c.classification),
                  Append(d.chat_calls, c.chat_calls), d.rooms, d.raised),
        c,
        Room([polygon |-> polys[i],
              room_type |-> c.classification.room_type,
              confidence_low |-> is_low_confidence(c.classification)]))

detect_room(polys, i, ds, ws, found, service, d, c, made) ==
    IF made.ok
    THEN detect_loop(polys, i + 1, ds, ws, found, service,
            [d EXCEPT !.rooms =
                Append(@, IF Len(found.nearby_text) > 0
                          THEN [made.room EXCEPT !.name = found.nearby_text[1]]
                          ELSE made.room)])
    ELSE [d EXCEPT !.raised = made.error]

\* _detect_rooms_from_walls from the cycles on
detect_rooms(polys, ds, ws, found, service) ==
    detect_loop(polys, 1, ds, ws, found, service,
                Detection(<<>>, <<>>, <<>>, <<>>, NoException))

-----------------------------------------------------------------------------
(* Block markers: core/dwg_parser/parser.py.  An INSERT entity is          *)
(* [name, layer, insert]; the drawing scale is 1.                          *)

\* cap on the number of INSERT entities of a modelspace
MaxInserts == 2

DOOR_LAYER_PATTERNS ==
    <<"door", "doors", "a-door", "arch-door", "porte", "tuer">>

WINDOW_LAYER_PATTERNS ==
    <<"window", "windows", "a-glaz", "arch-window", "fenetre", "fenster">>

DOOR_BLOCK_PATTERNS == <<"door", "dr", "d-", "porte", "tuer">>

WINDOW_BLOCK_PATTERNS == <<"window", "win", "w-", "fenetre", "fenster">>

\* any(pattern in name_lower for pattern in patterns)
any_in(patterns, name_lower) ==
    \E k \in 1..Len(patterns) : contains(patterns[k], name_lower)

\* _is_door_layer / _is_window_layer with the custom layers given to the
\* parser (door_layers, window_layers: none by default)
is_layer(layer_name, layer_lower, custom_layers, patterns) ==
    \/ layer_name \in SeqToSet(custom_layers)
    \/ \E k \in 1..Len(custom_layers) : lower(custom_layers[k]) = layer_lower
    \/ any_in(patterns, layer_lower)

is_door_layer(layer_name) ==
    is_layer(layer_name, lower(layer_name), <<>>, DOOR_LAYER_PATTERNS)

is_window_layer(layer_name) ==
    is_layer(layer_name, lower(layer_name), <<>>, WINDOW_LAYER_PATTERNS)

is_door_block(block_name) == any_in(DOOR_BLOCK_PATTERNS, lower(block_name))

is_window_block(block_name) ==
    any_in(WINDOW_BLOCK_PATTERNS, lower(block_name))

\* position = (insert_point.x * scale, insert_point.y * scale) of each
insert_positions(entities) ==
    [i \in 1..Len(entities) |-> entities[i].insert]

\* fixtures.append(block_name) for each
block_names(entities) == [i \in 1..Len(entities) |-> entities[i].name]

\* _extract_doors: the positions of the doors appended to the floor plan
extract_doors(msp) ==
    insert_positions(SelectSeq(msp, LAMBDA e :
        is_door_block(e.name) \/ is_door_layer(e.layer)))

\* _extract_windows: the positions of the windows appended
extract_windows(msp) ==
    insert_positions(SelectSeq(msp, LAMBDA e :
        is_window_block(e.name) \/ is_window_layer(e.layer)))

\* _detect_fixtures_in_polygon: the block names it returns
detect_fixtures_in_polygon(msp, polygon) ==
    block_names(SelectSeq(msp, LAMBDA e :
        /\ point_in_polygon(e.insert, polygon)
        /\ ~is_door_block(e.name)
        /\ ~is_window_block(e.name)))

-----------------------------------------------------------------------------
(* The contexts, AI behaviours and floor plans fed to the classifier *)

\* a configured openai_service
Service == 1

KitchenFixtures ==
    <<"stove", "oven", "fridge", "dishwasher", "range", "cooktop",
      "microwave", "counter">>

\* block names found in a room: up to MaxFixtures kitchen appliances, the
\* fixtures of test_classify_with_fixtures_priority, a name in capitals,
\* a fixture of two categories, a name of no category
FixtureLists ==
    {SubSeq(KitchenFixtures, 1, n) : n \in 0..MaxFixtures}
        \cup {<<"toilet", "sink">>, <<"Toilet_01">>, <<"sink">>,
              <<"PLANT">>, <<"BATHTUB", "bed">>}

\* labels found near a room
TextLists ==
    {<<>>, <<"KITCHEN">>, <<"Master Bedroom">>, <<"WC">>, <<"Room 101">>,
     <<"Pantry">>, <<"Hall", "Study">>}

Evidence(fixtures, nearby_text, ai) ==
    [fixtures |-> fixtures, nearby_text |-> nearby_text, ai |-> ai]

Contexts ==
    {RoomContext(RectRing, 0, 0, f, t) : f \in FixtureLists, t \in TextLists}

Garbage == [json |-> "garbage"]

Obj(fields) == [json |-> "object", fields |-> fields]

AI(kind, slow, running, fence, body) ==
    [kind |-> kind, slow |-> slow, running |-> running, fence |-> fence,
     body |-> body]

Reply(fence, body) == AI("reply", FALSE, FALSE, fence, body)

Answer(room_type, confidence) ==
    Obj([room_type |-> room_type, confidence |-> confidence,
         reasoning |-> Str("by its shape")])

Raises == AI("raise", FALSE, FALSE, "", Garbage)

Kitchen90 == Reply("", Answer(Str("kitchen"), Num(90)))

Spaceship == Reply("", Answer(Str("spaceship"), Num(90)))

TimedOut == AI("reply", TRUE, TRUE, "", Answer(Str("kitchen"), Num(90)))

\* what chat_completion may do
AIBehaviours ==
    {Raises, Kitchen90, Spaceship, TimedOut,
     AI("reply", TRUE, FALSE, "", Answer(Str("kitchen"), Num(90))),
     AI("reply", FALSE, TRUE, "", Answer(Str("kitchen"), Num(90))),
     Reply("fence", Answer(Str("bedroom"), Num(80))),
     Reply("fence json", Answer(Str("bedroom"), Num(80))),
     Reply("fence JSON", Answer(Str("bedroom"), Num(80))),
     Reply("", Garbage),
     Reply("", [json |-> "array"]),
     Reply("", Answer(Str("Kitchen"), Num(90))),
     Reply("", Answer(Null, Num(90))),
     Reply("", Answer(List, Num(90))),
     Reply("", Answer(Str("office"), Num(150))),
     Reply("", Answer(Str("office"), Num(-30))),
     Reply("", Answer(Str("office"), Num(49))),
     Reply("", Answer(Str("office"), Num(50))),
     Reply("", Answer(Str("office"), Num(100))),
     Reply("", Answer(Str("office"), Str("high"))),
     Reply("", Answer(Str("office"), Str("0.9"))),
     Reply("", Answer(Str("office"), Null)),
     Reply("", Obj([confidence |-> Num(90)])),
     Reply("", Obj([reasoning |-> Str("no idea")]))}

BatchContexts ==
    {RoomContext(RectRing, 0, 0, <<"toilet", "sink">>, <<"KITCHEN">>),
     RoomContext(RectRing, 0, 0, <<>>, <<"WC">>),
     RoomContext(RectRing, 0, 0, <<>>, <<>>),
     RoomContext(RectRing, 0, 0, <<"PLANT">>, <<"Room 101">>)}

BatchAIs == {Raises, Kitchen90, Spaceship, TimedOut}

\* the batches: up to MaxBatch contexts, each with what the AI does for it
Batches ==
    UNION {[1..n -> BatchContexts \X BatchAIs] : n \in 0..MaxBatch}

\* door and window positions: corners, sides and the inside of the rooms
\* below, and points outside them
MarkerPoints ==
    {<<0, 0>>, <<30, 30>>, <<40, 40>>, <<100, 40>>, <<60, 60>>, <<50, -1>>}

DoorLists == UNION {[1..n -> MarkerPoints] : n \in 0..MaxMarkers}

WindowLists == {<<>>, << <<80, 20>> >>, << <<101, 80>> >>, << <<0, 80>> >>}

RoomPolygons == {RectRing, TriangleRing, LRing}

\* what find_cycles(min_area=0.5) gave _detect_rooms_from_walls
DetectedCycles ==
    {<<>>, <<RectRing>>,
     <<RectRing, << <<100, 0>>, <<200, 0>>, <<200, 80>>, <<100, 80>> >> >>}

DetectedEvidence ==
    {Evidence(<<>>, <<>>, Raises), Evidence(<<>>, <<>>, Kitchen90),
     Evidence(<<>>, <<>>, Reply("", Answer(Str("office"), Num(49)))),
     Evidence(<<>>, <<>>, Reply("", Answer(Str("office"), Num(50)))),
     Evidence(<<"toilet">>, <<>>, Raises), Evidence(<<>>, <<"Hall">>, Raises)}

\* an INSERT entity of the modelspace
Insert(name, layer, insert) ==
    [name |-> name, layer |-> layer, insert |-> insert]

\* inside the 5 m x 4 m room: a door block named as such, a door block and
\* a window block known by their layer only, and a fixture; outside it: a
\* door block known by its layer and a fixture
Inserts ==
    {Insert("DOOR_36", "A-DOOR", <<30, 30>>),
     Insert("SGL-36", "A-DOOR", <<30, 30>>),
     Insert("FIX-48", "A-GLAZ", <<60, 40>>),
     Insert("toilet", "0", <<20, 60>>),
     Insert("SGL-36", "A-DOOR", <<150, 40>>),
     Insert("toilet", "0", <<150, 40>>)}

Modelspaces == UNION {[1..n -> Inserts] : n \in 0..MaxInserts}

-----------------------------------------------------------------------------
(* The classifier and the room detection as a state machine.  A behaviour *)
(* is one call on a fresh object: RoomClassifier only ever reads its       *)
(* openai_service, and the parser makes a new classifier for every         *)
(* detection, so no call sees what an earlier one did.                     *)

ClassifierInit ==
    /\ plan = Drawing("none", {}, 0, <<>>, {}, <<>>)
    /\ nodes = <<>>
    /\ edges = <<>>
    /\ edge_set = {}
    /\ op = "init"
    /\ resolved = <<>>
    /\ segments = <<>>
    /\ min_area = 0
    /\ traces = <<>>
    /\ filtered = <<>>
    /\ result = <<>>
    /\ calls = 0
    /\ openai_service \in {None, Service}
    /\ cop = "init"
    /\ room_polygons = <<>>
    /\ doors = <<>>
    /\ windows = <<>>
    /\ contexts = <<>>
    /\ responses = <<>>
    /\ results = <<>>
    /\ chat_calls = <<>>
    /\ floor_rooms = <<>>
    /\ modelspace = <<>>
    /\ raised = NoException

\* what a call c = classify(...) leaves behind
ClassifyDone(c) ==
    /\ results' = <<c.classification>>
    /\ chat_calls' = <<c.chat_calls>>

\* classifier.classify(context), the AI behaving as ai
Classify(context, ai) ==
    /\ cop = "init"
    /\ ClassifyDone(classify(context, openai_service, ai))
    /\ cop' = "classify"
    /\ contexts' = <<context>>
    /\ responses' = <<ai>>
    /\ room_polygons' = <<>>
    /\ doors' = <<>>
    /\ windows' = <<>>
    /\ floor_rooms' = <<>>
    /\ raised' = NoException
    /\ UNCHANGED <<openai_service, modelspace, gvars>>

\* what a call out = classify_batch(...) leaves behind
ClassifyBatchDone(out) ==
    /\ results' = [i \in 1..Len(out) |-> out[i].classification]
    /\ chat_calls' = [i \in 1..Len(out) |-> out[i].chat_calls]

\* classifier.classify_batch(contexts)
ClassifyBatch(batch) ==
    /\ cop = "init"
    /\ ClassifyBatchDone(
          classify_batch([i \in 1..Len(batch) |-> batch[i][1]],
                         openai_service,
                         [i \in 1..Len(batch) |-> batch[i][2]], 1, <<>>))
    /\ cop' = "classify_batch"
    /\ contexts' = [i \in 1..Len(batch) |-> batch[i][1]]
    /\ responses' = [i \in 1..Len(batch) |-> batch[i][2]]
    /\ room_polygons' = <<>>
    /\ doors' = <<>>
    /\ windows' = <<>>
    /\ floor_rooms' = <<>>
    /\ raised' = NoException
    /\ UNCHANGED <<openai_service, modelspace, gvars>>

\* parser._build_room_context(polygon) on a floor plan with doors ds and
\* windows ws
BuildRoomContext(polygon, ds, ws) ==
    /\ cop = "init"
    /\ contexts' = <<build_room_context(polygon, ds, ws,
                                        Evidence(<<>>, <<>>, Raises))>>
    /\ cop' = "build_room_context"
    /\ room_polygons' = <<polygon>>
    /\ doors' = ds
    /\ windows' = ws
    /\ responses' = <<>>
    /\ results' = <<>>
    /\ chat_calls' = <<>>
    /\ floor_rooms' = <<>>
    /\ raised' = NoException
    /\ UNCHANGED <<openai_service, modelspace, gvars>>

\* parse() up to the room context of one polygon: _extract_doors,
\* _extract_windows, then _build_room_context with the fixtures
\* _detect_fixtures_in_polygon finds
ExtractMarkers(polygon, msp) ==
    /\ cop = "init"
    /\ modelspace' = msp
    /\ doors' = extract_doors(msp)
    /\ windows' = extract_windows(msp)
    /\ contexts' = <<build_room_context(polygon, doors', windows',
                        Evidence(detect_fixtures_in_polygon(msp, polygon),
                                 <<>>, Raises))>>
    /\ cop' = "extract_markers"
    /\ room_polygons' = <<polygon>>
    /\ responses' = <<>>
    /\ results' = <<>>
    /\ chat_calls' = <<>>
    /\ floor_rooms' = <<>>
    /\ raised' = NoException
    /\ UNCHANGED <<openai_service, gvars>>

\* what _detect_rooms_from_walls leaves behind
DetectRoomsDone(d) ==
    /\ contexts' = d.contexts
    /\ results' = d.results
    /\ chat_calls' = d.chat_calls
    /\ floor_rooms' = d.rooms
    /\ raised' = d.raised

\* parser._detect_rooms_from_walls() once find_cycles has returned polys
DetectRooms(polys, ds, found) ==
    /\ cop = "init"
    /\ DetectRoomsDone(detect_rooms(polys, ds, <<>>, found, openai_service))
    /\ cop' = "detect_rooms"
    /\ room_polygons' = polys
    /\ doors' = ds
    /\ windows' = <<>>
    /\ responses' = [i \in 1..Len(polys) |-> found.ai]
    /\ UNCHANGED <<openai_service, modelspace, gvars>>

ClassifierNext ==
    \/ \E context \in Contexts, ai \in AIBehaviours : Classify(context, ai)
    \/ \E batch \in Batches : ClassifyBatch(batch)
    \/ \E polygon \in RoomPolygons, ds \in DoorLists, ws \in WindowLists :
          BuildRoomContext(polygon, ds, ws)
    \/ \E polys \in DetectedCycles, ds \in {<<>>, << <<100, 40>> >>},
          found \in DetectedEvidence : DetectRooms(polys, ds, found)
    \/ \E msp \in Modelspaces : ExtractMarkers(RectRing, msp)

ClassifierSpec == ClassifierInit /\ [][ClassifierNext]_vars

-----------------------------------------------------------------------------
(* Vocabulary of the classifier properties, stated on the contexts, the   *)
(* AI behaviours and the pattern tables rather than on the operators above *)

Classified == cop \in {"classify", "classify_batch", "detect_rooms"}

\* the room types of a pattern table with a pattern that is a substring of
\* the lower-cased name
Mentioned(table, lowered) ==
    {rt \in DOMAIN table :
        \E k \in 1..Len(table[rt]) : contains(table[rt][k], lowered)}

\* the pairs <<i, room type>> such that fixture i of the context matches a
\* fixture pattern of the room type
FixtureMatches(context) ==
    UNION {{<<i, rt>> :
               rt \in Mentioned(FIXTURE_PATTERNS, lower(context.fixtures[i]))} :
           i \in 1..Len(context.fixtures)}

\* the pairs <<room type, len(keyword)>> of the keywords found in a text
FoundIn(lowered) ==
    UNION {{<<rt, Len(TEXT_PATTERNS[rt][k])>> :
               k \in {n \in 1..Len(TEXT_PATTERNS[rt]) :
                         contains(TEXT_PATTERNS[rt][n], lowered)}} :
           rt \in DOMAIN TEXT_PATTERNS}

\* the same pairs over every nearby text of the context
TextMatches(context) ==
    UNION {FoundIn(lower(context.nearby_text[i])) :
           i \in 1..Len(context.nearby_text)}

\* the number of fixtures that match the room type
MatchCount(matches, rt) ==
    Cardinality({m \in matches : m[2] = rt})

\* the score of a room type, in hundredths: 10 * the greatest length found
TextScore(finds, rt) ==
    IF \A f \in finds : f[1] # rt THEN 0
    ELSE 10 * (CHOOSE v \in {f[2] : f \in {g \in finds : g[1] = rt}} :
                  \A f \in finds : f[1] = rt => f[2] <= v)

\* the reply text parses as a JSON object
ParsesAsObject(ai) ==
    ai.fence \in {"", "fence", "fence json"} /\ ai.body.json = "object"

\* the reply names a room type outside ROOM_TYPES
UnrecognisedRoomType(ai) ==
    /\ ParsesAsObject(ai)
    /\ "room_type" \in DOMAIN ai.body.fields
    /\ ~(ai.body.fields.room_type.t = "str"
            /\ ai.body.fields.room_type.s \in ROOM_TYPES)

\* the AI tier produces a classification: the reply arrives in time, is a
\* JSON object, its confidence is a number and its room_type can be looked
\* up in ROOM_TYPES
AIProduces(ai) ==
    /\ ai.kind = "reply"
    /\ ~(ai.running /\ ai.slow)
    /\ ParsesAsObject(ai)
    /\ "confidence" \in DOMAIN ai.body.fields =>
          \/ ai.body.fields.confidence.t = "num"
          \/ ai.body.fields.confidence = Str("0.9")
    /\ "room_type" \in DOMAIN ai.body.fields =>
          ai.body.fields.room_type.t # "list"

\* the closed region of the rooms used below, written out
InRoom(p, polygon) ==
    IF polygon = RectRing
    THEN 0 <= p[1] /\ p[1] <= 100 /\ 0 <= p[2] /\ p[2] <= 80
    ELSE IF polygon = TriangleRing
    THEN 0 <= p[1] /\ 0 <= p[2] /\ p[1] + p[2] <= 60
    ELSE IF polygon = LRing
    THEN /\ 0 <= p[1] /\ 0 <= p[2]
         /\ \/ p[1] <= 80 /\ p[2] <= 40
            \/ p[1] <= 40 /\ p[2] <= 80
    ELSE 100 <= p[1] /\ p[1] <= 200 /\ 0 <= p[2] /\ p[2] <= 80

-----------------------------------------------------------------------------
(* Claims C12 - C20, checked under ClassifierSpec *)

\* the tier that decides one context: matches are its fixture matches,
\* finds the keywords found in its texts
DecidedInOrder(answer, ai, matches, finds) ==
    IF matches # {}
    THEN /\ answer.reasoning[1] = "Detected from fixtures: "
         /\ MatchCount(matches, answer.room_type) > 0
    ELSE IF finds # {}
    THEN /\ answer.reasoning[1] = "Detected from text labels: "
         /\ TextScore(finds, answer.room_type) > 0
    ELSE IF openai_service # None /\ AIProduces(ai)
    THEN answer.reasoning[1] = "ai"
    ELSE /\ answer.room_type = "unknown"
         /\ answer.confidence = 0
         /\ answer.reasoning[1] # "ai"

\* C12: classify decides by the first tier that yields a result, in the
\* order fixture, text, AI, unknown: a matching fixture gives the fixture
\* tier's answer whatever the texts and the AI are, else a matching text
\* gives the text tier's answer, else the AI's answer if a service is
\* configured and produces one, else unknown with confidence 0.0.
C12_TierOrder ==
    cop \in {"classify", "classify_batch"} =>
        \A i \in 1..Len(results) :
            DecidedInOrder(results[i], responses[i],
                           FixtureMatches(contexts[i]),
                           TextMatches(contexts[i]))

C12_Witness ==
    /\ cop = "classify"
    /\ openai_service = Service
    /\ contexts[1].fixtures = <<"toilet", "sink">>
    /\ contexts[1].nearby_text = <<"KITCHEN">>
    /\ responses[1] = Kitchen90
    /\ results[1].room_type = "bathroom"

\* C13: when the AI collaborator is consulted and raises, or returns text
\* that is no JSON object, or names a room type outside the recognised
\* set, classify returns normally with room_type unknown and confidence 0.0.
C13_AIFailureIsUnknown ==
    cop \in {"classify", "classify_batch"} =>
        /\ raised = NoException
        /\ Len(results) = Len(contexts)
        /\ \A i \in 1..Len(results) :
              (/\ chat_calls[i] > 0
               /\ \/ responses[i].kind = "raise"
                  \/ ~ParsesAsObject(responses[i])
                  \/ UnrecognisedRoomType(responses[i]))
                  => /\ results[i].room_type = "unknown"
                     /\ results[i].confidence = 0

C13_Witness ==
    /\ cop = "classify"
    /\ chat_calls = <<1>>
    /\ responses[1] = Spaceship
    /\ results[1].room_type = "unknown"
    /\ results[1].confidence = 0

\* C14: chat_completion is called at most once per context, and exactly
\* for the contexts that reach tier 3 (a service is configured, no fixture
\* and no text matched); a batch makes as many calls as it has such
\* contexts.
C14_OneCallPerTier3Context ==
    Classified =>
        /\ \A i \in 1..Len(results) :
              /\ chat_calls[i] \in {0, 1}
              /\ chat_calls[i] = 1 <=>
                    /\ openai_service # None
                    /\ FixtureMatches(contexts[i]) = {}
                    /\ TextMatches(contexts[i]) = {}
        /\ Len(chat_calls) = Len(contexts) \/ raised # NoException

C14_Witness ==
    /\ cop = "classify_batch"
    /\ Len(contexts) = 2
    /\ responses = <<Kitchen90, Raises>>
    /\ chat_calls = <<0, 1>>
    /\ results[2].room_type = "unknown"

\* C15: classify_batch returns one result per context, in order, each the
\* result classify gives for that context alone; a failure or timeout of
\* the AI on one context leaves the others as they would be without it.
C15_BatchIsPointwise ==
    cop = "classify_batch" =>
        /\ Len(results) = Len(contexts)
        /\ \A i \in 1..Len(contexts) :
              results[i] =
                  classify(contexts[i], openai_service,
                           responses[i]).classification

C15_Witness ==
    /\ cop = "classify_batch"
    /\ Len(contexts) = 2
    /\ chat_calls = <<1, 1>>
    /\ responses = <<TimedOut, Kitchen90>>
    /\ results[1].room_type = "unknown"
    /\ results[2].room_type = "kitchen"

\* C16: every RoomClassification classify returns has confidence in [0, 1]
\* and a room type of the recognised set.
C16_ClassificationInRange ==
    Classified =>
        \A i \in 1..Len(results) :
            /\ 0 <= results[i].confidence /\ results[i].confidence <= 100
            /\ results[i].room_type \in ROOM_TYPES

\* C17: is_low_confidence is confidence < 0.5, and wall-based room
\* detection makes one Room per polygon that carries it as confidence_low,
\* which Room.to_dict() includes.
C17_ConfidenceLowFlag ==
    (cop = "detect_rooms" /\ Len(room_polygons) > 0) =>
        /\ raised = NoException
        /\ Len(floor_rooms) = Len(room_polygons)
        /\ \A i \in 1..Len(floor_rooms) :
              /\ "confidence_low" \in DOMAIN floor_rooms[i]
              /\ floor_rooms[i].confidence_low = (results[i].confidence < 50)
              /\ "confidence_low" \in DOMAIN to_dict(floor_rooms[i])

\* the fixture tier's answer for a context with these fixture matches
\* the confidence stated for m matching fixtures, in hundredths
StatedConfidence(m) ==
    IF m = 1 THEN 60
    ELSE IF m = 2 THEN 75
    ELSE Min(95, 75 + 5 * (m - 2))

FixtureAnswer(answer, matches, m) ==
    /\ \A rt \in DOMAIN FIXTURE_PATTERNS : MatchCount(matches, rt) <= m
    /\ answer.confidence = StatedConfidence(m)
    /\ \A n \in 1..m : StatedConfidence(n) <= answer.confidence

TextAnswer(answer, finds, score) ==
    /\ \A rt \in DOMAIN TEXT_PATTERNS : TextScore(finds, rt) <= score
    /\ answer.confidence = Min(85, 50 + score)

\* C19: when the text tier decides, the room type chosen has the highest
\* score, a room type's score being the greatest len(keyword) / 10 over
\* its keywords found in a nearby text, and the confidence is
\* min(0.85, 0.5 + that score).
C19_TextConfidence ==
    cop \in {"classify", "classify_batch"} =>
        \A i \in 1..Len(results) :
            (FixtureMatches(contexts[i]) = {}
                /\ TextMatches(contexts[i]) # {}) =>
                TextAnswer(results[i], TextMatches(contexts[i]),
                           TextScore(TextMatches(contexts[i]),
                                     results[i].room_type))

C19_Witness ==
    /\ cop = "classify"
    /\ contexts[1].fixtures = <<>>
    /\ contexts[1].nearby_text = <<"WC">>
    /\ results[1].room_type = "bathroom"
    /\ results[1].confidence = 70

\* C20: the door_count and the window_count of a room context are the
\* numbers of door and window positions inside the room polygon or on its
\* boundary, sides and corners included.
C20_MarkerCounts ==
    cop \in {"build_room_context", "detect_rooms"} =>
        \A i \in 1..Len(contexts) :
            /\ contexts[i].door_count =
                  Cardinality({k \in 1..Len(doors) :
                                  InRoom(doors[k], contexts[i].polygon)})
            /\ contexts[i].window_count =
                  Cardinality({k \in 1..Len(windows) :
                                  InRoom(windows[k], contexts[i].polygon)})

C20_Witness ==
    /\ cop = "build_room_context"
    /\ contexts[1].polygon = LRing
    /\ doors = << <<40, 40>>, <<60, 60>> >>
    /\ windows = << <<80, 20>> >>
    /\ contexts[1].door_count = 1
    /\ contexts[1].window_count = 1

-----------------------------------------------------------------------------
(* Claims C21 - C30 *)

\* the edge next_edge taken at current_node, reached from prev_node by
\* current_edge, follows the rightmost-turn rule: it is incident to
\* current_node, is not current_edge, and no other incident edge turns
\* further to the right
RightmostTurn(prev_node, current_node, current_edge, next_edge) ==
    /\ next_edge \in Incident(current_node)
    /\ next_edge # current_edge
    /\ \A f \in Incident(current_node) \ {current_edge} :
          ~TurnsRightOf(Direction(Graph, prev_node, current_node),
                        Direction(Graph, current_node,
                                  get_other_node(Graph, f, current_node)),
                        Direction(Graph, current_node,
                                  get_other_node(Graph, next_edge,
                                                 current_node)))

\* the choice made on arriving at current_node from prev_node by edge e
TurnChosen(prev_node, current_node, e, next_edge) ==
    IF Cardinality(Incident(current_node)) <= 1 THEN next_edge = None
    ELSE RightmostTurn(prev_node, current_node, e, next_edge)

\* C21: at every step of a cycle trace the next edge is incident to the
\* current node, is never the edge just traversed, and is, among the other
\* incident edges, one of greatest -normalize_angle(outgoing - incoming),
\* the most clockwise turn; only at a node with no other edge is there no
\* next edge.
C21_RightmostTurn ==
    Found =>
        /\ \A i \in OkTraces :
              \A k \in 1..(Len(traces[i].cycle) - 1) :
                  /\ traces[i].cycle_edges[k + 1][2] = traces[i].cycle[k]
                  /\ RightmostTurn(traces[i].cycle_edges[k][2],
                                   traces[i].cycle[k],
                                   traces[i].cycle_edges[k][1],
                                   traces[i].cycle_edges[k + 1][1])
        /\ \A e \in 1..Len(edges) : \A a \in {1, 2} :
              TurnChosen(edges[e].node_ids[a], edges[e].node_ids[3 - a], e,
                         find_rightmost_edge(Graph, edges[e].node_ids[3 - a],
                                             edges[e].node_ids[a], e))

C21_Witness ==
    /\ Found /\ plan.name = "three_rooms" /\ Built
    /\ \E i \in OkTraces : \E k \in 1..(Len(traces[i].cycle) - 1) :
          /\ Cardinality(Incident(traces[i].cycle[k])) = 3
          /\ Cross(Direction(Graph, traces[i].cycle_edges[k][2],
                             traces[i].cycle[k]),
                   Direction(Graph, traces[i].cycle[k],
                             traces[i].cycle[k + 1])) # 0

\* every vertex of the cycle inner lies inside the cycle outer or on it
Encloses(outer, inner) ==
    \A k \in 1..Len(inner) : point_in_polygon(inner[k], outer)

\* C22: whenever find_cycles removes a cycle as the outer boundary, the
\* removed cycle encloses all the cycles that survive, so no interior room
\* is discarded by the outer-boundary step.
C22_OutlineRemoved ==
    (Found /\ Len(result) < Len(filtered)) =>
        \E i \in 1..Len(filtered) :
            /\ result = Without(filtered, i)
            /\ \A j \in 1..Len(result) : Encloses(filtered[i], result[j])

\* the directed edges marked used by the traces before trace i
MarkedBefore(i) == UNION {traces[j].marked : j \in 1..(i - 1)}

\* the directed edges of the graph, as (edge id, from node id)
DirectedEdges ==
    {<<e, edges[e].node_ids[a]>> : e \in 1..Len(edges), a \in {1, 2}}

\* C23: a trace that aborts (dead end, used directed edge, or step bound)
\* returns no cycle and adds nothing to the used directed edges; only a
\* successful trace marks its directed edges.  So the directed edges that
\* find_cycles skips as used are exactly those of the cycles traced before.
C23_AbortMarksNothing ==
    Found =>
        /\ \A i \in 1..Len(traces) :
              /\ traces[i].why \in {"dead_end", "used", "max_iterations"} =>
                    /\ ~traces[i].ok
                    /\ traces[i].cycle = <<>>
                    /\ traces[i].marked = {}
              /\ traces[i].ok =>
                    /\ traces[i].marked = SeqToSet(traces[i].cycle_edges)
                    /\ traces[i].marked # {}
              /\ <<traces[i].edge, traces[i].from>> \notin MarkedBefore(i)
        /\ {<<traces[i].edge, traces[i].from>> : i \in 1..Len(traces)}
              \cup MarkedBefore(Len(traces) + 1) = DirectedEdges

C23_Witness ==
    /\ Found
    /\ \E i, j, k \in 1..Len(traces) :
          /\ i < j /\ j < k
          /\ traces[i].why = "dead_end"
          /\ traces[j].ok
          /\ traces[k].why = "used"

\* some edge of the graph joins the nodes a and b
Joined(a, b) ==
    \E e \in 1..Len(edges) :
        {edges[e].node_ids[1], edges[e].node_ids[2]} = {a, b} /\ a # b

\* C24: every cycle of a successful trace is a closed walk in the graph: it
\* ends at the node the trace started from, every consecutive pair of its
\* nodes, and the last with the first, is joined by an edge, and it visits
\* at least 3 distinct nodes.
C24_ClosedWalk ==
    Found =>
        \A i \in OkTraces :
            /\ Len(traces[i].cycle) >= 3
            /\ traces[i].cycle[Len(traces[i].cycle)] = traces[i].from
            /\ \A k \in 1..Len(traces[i].cycle) :
                  Joined(traces[i].cycle[k],
                         traces[i].cycle[(k % Len(traces[i].cycle)) + 1])
            /\ Cardinality(SeqToSet(traces[i].cycle)) >= 3

C24_Witness ==
    /\ Found /\ plan.name = "two_buildings" /\ Built
    /\ Cardinality(OkTraces) = 4
    /\ \E i \in OkTraces : Len(traces[i].cycle) = 3
    /\ \E i \in OkTraces : Len(traces[i].cycle) = 4

\* C25: add_wall never removes a node or an edge and never changes an
\* existing node's position or an existing edge's endpoints or wall id: an
\* existing node changes only by growth of its incident-edge list, and a
\* node that an endpoint snaps to stays at its first-seen coordinates.
C25_AddWallOnlyGrows ==
    [][op' = "add_wall" =>
          /\ Len(nodes') >= Len(nodes)
          /\ Len(edges') >= Len(edges)
          /\ edge_set \subseteq edge_set'
          /\ \A n \in 1..Len(nodes) :
                /\ nodes'[n].position = nodes[n].position
                /\ Len(nodes'[n].edge_ids) >= Len(nodes[n].edge_ids)
                /\ SubSeq(nodes'[n].edge_ids, 1, Len(nodes[n].edge_ids))
                      = nodes[n].edge_ids
          /\ \A e \in 1..Len(edges) : edges'[e] = edges[e]
          /\ \A k \in 1..Len(resolved') :
                resolved'[k].created =>
                    nodes'[resolved'[k].id].position = resolved'[k].position
      ]_vars

C25_Witness ==
    /\ op = "add_wall"
    /\ \E k \in 1..Len(resolved) :
          /\ ~resolved[k].created
          /\ resolved[k].position # nodes[resolved[k].id].position
          /\ Len(nodes[resolved[k].id].edge_ids) >= 2
          /\ resolved[k].id <= resolved[1].known

\* C27: after any sequence of add_wall calls, any two distinct nodes lie
\* farther apart than snap_tolerance.
C27_NodesApart ==
    \A i, j \in 1..Len(nodes) :
        i # j => Dist2(nodes[i].position, nodes[j].position)
                    > SnapTolerance * SnapTolerance

C27_Witness ==
    /\ op = "add_wall"
    /\ \E i, j \in 1..Len(nodes) :
          Dist2(nodes[i].position, nodes[j].position) = 2
    /\ \E k \in 1..Len(resolved) :
          /\ ~resolved[k].created
          /\ Dist2(resolved[k].position, nodes[resolved[k].id].position)
                = SnapTolerance * SnapTolerance

\* the places of node n's incident-edge list that hold the edge id e
Places(n, e) ==
    {k \in 1..Len(nodes[n].edge_ids) : nodes[n].edge_ids[k] = e}

RECURSIVE ListedEdges(_)
ListedEdges(n) ==
    IF n = 0 THEN 0 ELSE Len(nodes[n].edge_ids) + ListedEdges(n - 1)

\* C30: after any sequence of add_wall calls, a node's incident-edge list
\* holds an edge id exactly when the node is one of the edge's two
\* endpoints, and holds it once, so the lists together have 2 * |edges|
\* entries.
C30_IncidentLists ==
    /\ \A n \in 1..Len(nodes) :
          /\ \A k \in 1..Len(nodes[n].edge_ids) :
                nodes[n].edge_ids[k] \in Incident(n)
          /\ \A e \in Incident(n) : Cardinality(Places(n, e)) = 1
    /\ ListedEdges(Len(nodes)) = 2 * Len(edges)

C30_Witness ==
    /\ op = "add_wall"
    /\ \E n \in 1..Len(nodes) : Len(nodes[n].edge_ids) = 3
    /\ \E k \in 1..Len(segments) : segments[k].outcome = "duplicate"
    /\ ListedEdges(Len(nodes)) = 2 * Len(edges)

\* C28: no two polygons returned by one find_cycles call have the same
\* vertex set: each enclosed region is reported at most once.
C28_NoDuplicatePolygon ==
    Found =>
        \A i, j \in 1..Len(result) :
            i # j => SeqToSet(result[i]) # SeqToSet(result[j])

\* a classification decided by the fixture tier or by the text tier is not
\* of low confidence
DecisiveTiers(answer, matches, finds) ==
    /\ (matches # {} \/ finds # {}) =>
          /\ answer.confidence >= 60
          /\ ~is_low_confidence(answer)
          /\ answer.room_type # "unknown"
    /\ is_low_confidence(answer) =>
          /\ matches = {} /\ finds = {}
          /\ \/ answer.reasoning[1] = "ai"
             \/ answer.room_type = "unknown" /\ answer.confidence = 0

\* C29: whenever classify decides by the fixture tier or by the text tier
\* the confidence is at least 0.6, so is_low_confidence is false; a
\* low-confidence classification comes only from the unknown fallback or
\* from the AI tier.
C29_TiersAreConfident ==
    Classified =>
        \A i \in 1..Len(results) :
            DecisiveTiers(results[i], FixtureMatches(contexts[i]),
                          TextMatches(contexts[i]))

C29_Witness ==
    /\ cop = "classify_batch"
    /\ Len(results) = 2
    /\ FixtureMatches(contexts[1]) = {}
    /\ TextMatches(contexts[1]) # {}
    /\ results[1].confidence = 70
    /\ ~is_low_confidence(results[1])
    /\ results[2].reasoning[1] = "ai"
    /\ is_low_confidence(results[2])

\* the entities of the modelspace extracted as doors or as windows
Extracted(e) ==
    \/ is_door_block(e.name) \/ is_door_layer(e.layer)
    \/ is_window_block(e.name) \/ is_window_layer(e.layer)

\* C26: a block marker extracted as a door or as a window is never listed
\* among a room's fixtures: fixtures holds exactly the names of the other
\* markers that lie inside the room polygon or on it.
C26_FixturesExcludeOpenings ==
    cop = "extract_markers" =>
        /\ Len(doors) + Len(windows)
              >= Cardinality({k \in 1..Len(modelspace) :
                                 Extracted(modelspace[k])})
        /\ contexts[1].fixtures =
              block_names(SelectSeq(modelspace, LAMBDA e :
                          /\ InRoom(e.insert, contexts[1].polygon)
                          /\ ~Extracted(e)))

====
